---- MODULE Spec2Model ----
(***************************************************************************)
(* Open-channel-flow calculator (OCF-Guru): the hydraulics engine of       *)
(* utils/calculations.ts (getGeometry, solveNormalDepth,                   *)
(* solveCriticalDepth, solveDepthFromEnergy, calculateMultiReachProfile,   *)
(* calculateSectionProperties, calculateFlow).                             *)
(*                                                                         *)
(* Numbers.  The program computes in IEEE-754 doubles.  Here a number is   *)
(* a fixed-point integer with four decimals (the value v stands for        *)
(* v / SCALE), of magnitude below INF; arithmetic truncates towards zero,  *)
(* a result whose magnitude reaches INF becomes +-Infinity (PINF, NINF),   *)
(* and the undefined forms (0/0, Infinity - Infinity, 0 * Infinity, the    *)
(* square root of a negative number) become NaN, which every comparison    *)
(* answers with FALSE, as in the program.                                  *)
(***************************************************************************)
EXTENDS Integers, Sequences, FiniteSets, TLC

SCALE == 100 * 100
INF == 2000 * 1000 * 1000
PINF == INF
NINF == -INF
NaN == INF + 1

IsNaN(a) == a = NaN
IsFinite(a) == a # NaN /\ a > NINF /\ a < PINF
Sgn(a) == IF a > 0 THEN 1 ELSE IF a < 0 THEN -1 ELSE 0
Mag(a) == IF a < 0 THEN -a ELSE a
\* magnitudes below INF, saturating at INF
SatAdd(u, v) == IF u >= INF \/ v >= INF \/ u > INF - v THEN INF ELSE u + v
SatMulInt(u, k) == IF u = 0 \/ k = 0 THEN 0 ELSE IF u > INF \div k THEN INF ELSE u * k

\* a + b
Plus(a, b) ==
    IF IsNaN(a) \/ IsNaN(b) THEN NaN
    ELSE IF (a = PINF /\ b = NINF) \/ (a = NINF /\ b = PINF) THEN NaN
    ELSE IF a = PINF \/ b = PINF THEN PINF
    ELSE IF a = NINF \/ b = NINF THEN NINF
    ELSE IF a >= 0 /\ b >= 0 THEN SatAdd(a, b)
    ELSE IF a <= 0 /\ b <= 0 THEN -SatAdd(-a, -b)
    ELSE a + b

Neg(a) == IF IsNaN(a) THEN NaN ELSE -a

\* a - b
Minus(a, b) == Plus(a, Neg(b))

\* |x * y / SCALE| for magnitudes x, y below INF, without overflowing 32 bits
MulMag(x, y) ==
    LET x1 == x \div SCALE
        x0 == x % SCALE
        y1 == y \div SCALE
        y0 == y % SCALE
    IN  SatAdd(SatMulInt(SatMulInt(x1, y1), SCALE),
               SatAdd(x1 * y0, SatAdd(x0 * y1, (x0 * y0) \div SCALE)))

\* a * b
Times(a, b) ==
    IF IsNaN(a) \/ IsNaN(b) THEN NaN
    ELSE IF (Mag(a) = INF /\ b = 0) \/ (a = 0 /\ Mag(b) = INF) THEN NaN
    ELSE IF Mag(a) = INF \/ Mag(b) = INF THEN Sgn(a) * Sgn(b) * INF
    ELSE Sgn(a) * Sgn(b) * MulMag(Mag(a), Mag(b))

\* the first n decimals of r / y, for 0 <= r < y
RECURSIVE FracDigits(_, _, _)
FracDigits(r, y, n) ==
    IF n = 0 THEN 0
    ELSE LET big == y > INF \div 10
             r10 == IF big THEN r ELSE r * 10
             yy == IF big THEN y \div 10 ELSE y
             d == IF r10 \div yy > 9 THEN 9 ELSE r10 \div yy
             rest == IF r10 - d * yy < 0 THEN 0 ELSE r10 - d * yy
         IN  d * (10 ^ (n - 1)) + FracDigits(rest, yy, n - 1)

\* |x * SCALE / y| for magnitudes x, y below INF, y > 0
DivMag(x, y) ==
    SatAdd(SatMulInt(x \div y, SCALE), FracDigits(x % y, y, 4))

\* a / b
Divide(a, b) ==
    IF IsNaN(a) \/ IsNaN(b) THEN NaN
    ELSE IF Mag(a) = INF /\ Mag(b) = INF THEN NaN
    ELSE IF b = 0 THEN (IF a = 0 THEN NaN ELSE Sgn(a) * INF)
    ELSE IF Mag(b) = INF THEN 0
    ELSE IF Mag(a) = INF THEN Sgn(a) * Sgn(b) * INF
    ELSE Sgn(a) * Sgn(b) * DivMag(Mag(a), Mag(b))

\* comparisons: FALSE as soon as an operand is NaN
Lt(a, b) == ~IsNaN(a) /\ ~IsNaN(b) /\ a < b
Le(a, b) == ~IsNaN(a) /\ ~IsNaN(b) /\ a <= b
Gt(a, b) == Lt(b, a)
Ge(a, b) == Le(b, a)
Eq(a, b) == ~IsNaN(a) /\ ~IsNaN(b) /\ a = b

Math_abs(a) == IF IsNaN(a) THEN NaN ELSE Mag(a)
Math_max(a, b) == IF IsNaN(a) \/ IsNaN(b) THEN NaN ELSE IF a > b THEN a ELSE b

\* p * p <= x * SCALE, exactly where 32 bits allow it
SqrtFits(p, x) ==
    IF x < 200000 /\ p < 46000 THEN p * p <= x * SCALE ELSE MulMag(p, p) <= x

\* the largest p in lo..hi with p * p <= x (magnitudes), by bisection
RECURSIVE SqrtSearch(_, _, _)
SqrtSearch(x, lo, hi) ==
    IF hi - lo <= 1 THEN (IF SqrtFits(hi, x) THEN hi ELSE lo)
    ELSE LET m == lo + (hi - lo) \div 2
         IN  IF SqrtFits(m, x) THEN SqrtSearch(x, m, hi) ELSE SqrtSearch(x, lo, m)

Math_sqrt(a) ==
    IF IsNaN(a) \/ a < 0 THEN NaN
    ELSE IF a = PINF THEN PINF
    ELSE SqrtSearch(a, 0, IF a < SCALE THEN SCALE ELSE a)

\* p * p * p <= a * a * SCALE, exactly where 32 bits allow it
CbrtFits(p, a) ==
    IF a <= 40000 /\ p <= 26000
    THEN LET q == ((p * p) \div SCALE) * p + (((p * p) % SCALE) * p) \div SCALE
             r == (((p * p) % SCALE) * p) % SCALE
         IN  q < a * a \/ (q = a * a /\ r = 0)
    ELSE MulMag(MulMag(p, p), p) <= MulMag(a, a)

\* the largest p in lo..hi with p * p * p <= a * a (magnitudes), by bisection
RECURSIVE CbrtSearch(_, _, _)
CbrtSearch(a, lo, hi) ==
    IF hi - lo <= 1 THEN (IF CbrtFits(hi, a) THEN hi ELSE lo)
    ELSE LET m == lo + (hi - lo) \div 2
         IN  IF CbrtFits(m, a) THEN CbrtSearch(a, m, hi) ELSE CbrtSearch(a, lo, m)

\* Math.pow(a, 2/3)
Math_pow23(a) ==
    IF IsNaN(a) \/ a < 0 THEN NaN
    ELSE IF a = PINF THEN PINF
    ELSE CbrtSearch(a, 0, IF a < SCALE THEN SCALE ELSE a)

\* Math.pow(a, 2) and Math.pow(a, 3)
Math_pow2(a) == Times(a, a)
Math_pow3(a) == Times(Times(a, a), a)

\* pi, to the four decimals of the number model
PI == 31416

\* sin x for 0 <= x <= pi/2, by its Taylor polynomial of degree 9 (Horner form)
SinQuarterOf(x, x2) ==
    MulMag(x, SCALE - MulMag(x2 \div 6,
                 SCALE - MulMag(x2 \div 20,
                     SCALE - MulMag(x2 \div 42, SCALE - x2 \div 72))))

SinQuarter(x) == SinQuarterOf(x, MulMag(x, x))

\* sin x for 0 <= x < 2 pi
SinTurn(x) ==
    (IF x <= PI THEN 1 ELSE -1)
        * SinQuarter(IF x <= PI \div 2 THEN x
                     ELSE IF x <= PI THEN PI - x
                     ELSE IF x <= PI + PI \div 2 THEN x - PI
                     ELSE 2 * PI - x)

\* Math.sin(a)
Math_sin(a) ==
    IF ~IsFinite(a) THEN NaN
    ELSE Sgn(a) * SinTurn(Mag(a) % (2 * PI))

\* cos x for 0 <= x <= pi
CosHalfTurn(x) ==
    (IF x <= PI \div 2 THEN 1 ELSE -1)
        * SinQuarter(IF x <= PI \div 2 THEN PI \div 2 - x ELSE x - PI \div 2)

\* the angle in lo..hi whose cosine is v: the cosine decreases on [0, pi]
RECURSIVE AcosSearch(_, _, _)
AcosSearch(v, lo, hi) ==
    IF hi - lo <= 1 THEN (IF CosHalfTurn(lo) <= v THEN lo ELSE hi)
    ELSE LET m == lo + (hi - lo) \div 2
         IN  IF CosHalfTurn(m) > v THEN AcosSearch(v, m, hi) ELSE AcosSearch(v, lo, m)

\* Math.acos(a): NaN outside [-1, 1]
Math_acos(a) ==
    IF IsNaN(a) \/ a > SCALE \/ a < -SCALE THEN NaN
    ELSE IF a = SCALE THEN 0
    ELSE IF a = -SCALE THEN PI
    ELSE AcosSearch(a, 0, PI)

\* the number k (an integer literal of the program)
Num(k) == k * SCALE

(***************************************************************************)
(* Program constants (numbers in fixed point: 98100 is 9.81).              *)
(***************************************************************************)
\* a mutant of MAX_ITER: twice the iterations
MAX_ITER_Doubled == 2 * 100

MAX_ITER == 100
\* TOLERANCE = 1e-6 and the 1e-4 of solveDepthFromEnergy, in millionths
TOLERANCE == 1
ENERGY_TOLERANCE == 100
MILLION == 1000 * 1000
G_SI == 98100
K_SI == 10000
G_Imperial == 322000
K_Imperial == 14860
UNIT_CONSTANTS(unit) ==
    IF unit = "SI" THEN [G |-> G_SI, K |-> K_SI] ELSE [G |-> G_Imperial, K |-> K_Imperial]

\* d < t for a number d and a tolerance t given in millionths
BelowTolerance(d, t) ==
    ~IsNaN(d) /\ d < SCALE /\ d > -SCALE /\ d * (MILLION \div SCALE) < t

ChannelTypes == {"Rectangular", "Trapezoidal", "Triangular", "Circular"}
UnitSystems == {"SI", "Imperial"}

ZeroGeometry == [A |-> 0, P |-> 0, T |-> 0, centroidDepth |-> 0]

RectangularGeometry(y, p) ==
    [A |-> Times(p.width, y),
     P |-> Plus(p.width, Times(Num(2), y)),
     T |-> p.width,
     centroidDepth |-> Divide(y, Num(2))]

TrapezoidalGeometry(y, p) ==
    LET WithT(T) ==
            [A |-> Times(Plus(p.width, Times(p.sideSlope, y)), y),
             P |-> Plus(p.width,
                        Times(Times(Num(2), y),
                              Math_sqrt(Plus(Num(1), Times(p.sideSlope, p.sideSlope))))),
             T |-> T,
             \* y - y_bar_bottom
             centroidDepth |->
                 Minus(y, Times(Divide(y, Num(3)),
                                Divide(Plus(Times(Num(2), T), p.width),
                                       Plus(T, p.width))))]
    IN  WithT(Plus(p.width, Times(Times(Num(2), p.sideSlope), y)))

TriangularGeometry(y, p) ==
    [A |-> Times(Times(p.sideSlope, y), y),
     P |-> Times(Times(Num(2), y),
                 Math_sqrt(Plus(Num(1), Times(p.sideSlope, p.sideSlope)))),
     T |-> Times(Times(Num(2), p.sideSlope), y),
     centroidDepth |-> Divide(y, Num(3))]

CircularGeometry(y, p) ==
    LET D == p.diameter
        \* depth, clamped to D
        h == IF Gt(y, D) THEN D ELSE y
        r == Divide(D, Num(2))
        \* sinTheta = Math.sin(theta), sinAlpha = Math.sin(theta / 2)
        WithTheta(theta, sinTheta, sinAlpha) ==
            [A |-> Times(Divide(Math_pow2(D), Num(8)), Minus(theta, sinTheta)),
             P |-> Times(Divide(D, Num(2)), theta),
             T |-> Times(D, sinAlpha),
             \* (h - r) + segmentCentroidFromCenter
             centroidDepth |->
                 Plus(Minus(h, r),
                      Divide(Times(Times(Num(2), D), Math_pow3(sinAlpha)),
                             Times(Num(3), Minus(theta, sinTheta))))]
        OfTheta(theta) == WithTheta(theta, Math_sin(theta), Math_sin(Divide(theta, Num(2))))
    IN  OfTheta(Times(Num(2), Math_acos(Minus(Num(1), Divide(Times(Num(2), h), D)))))

\* a mutant of the guard of getGeometry: y < 0 in place of y <= 0
NoDepth_Strict(y) == Lt(y, 0)

\* "if (y <= 0)"
NoDepth(y) == Le(y, 0)

getGeometry(type, y, p) ==
    IF NoDepth(y) THEN ZeroGeometry
    ELSE IF type = "Rectangular" THEN RectangularGeometry(y, p)
    ELSE IF type = "Trapezoidal" THEN TrapezoidalGeometry(y, p)
    ELSE IF type = "Triangular" THEN TriangularGeometry(y, p)
    ELSE CircularGeometry(y, p)

(***************************************************************************)
(* The bisection solvers.  One iteration of each loop is an operator on    *)
(* the bracket: it answers the new bracket, or the midpoint it returns.    *)
(***************************************************************************)
Midpoint(min, max) == Divide(Plus(min, max), Num(2))

\* a mutant of the upper end of the bracket: 100 for every shape
BracketMax_Wide(type, p) == Num(100)

\* max = type === Circular ? p.diameter : 50
BracketMax(type, p) == IF type = "Circular" THEN p.diameter ELSE Num(50)

NormalDepthTarget(p, unit) ==
    Divide(Times(p.flowRate, p.manningN),
           Times(UNIT_CONSTANTS(unit).K, Math_sqrt(p.slope)))

Iteration(min, max, returned, mid) ==
    [min |-> min, max |-> max, returned |-> returned, mid |-> mid]

NormalDepthIteration(type, p, target, min, max) ==
    LET Compare(mid, val) ==
            IF BelowTolerance(Math_abs(Minus(val, target)), TOLERANCE)
            THEN Iteration(min, max, TRUE, mid)
            ELSE IF Lt(val, target) THEN Iteration(mid, max, FALSE, mid)
            ELSE Iteration(min, mid, FALSE, mid)
        \* R = geom.A / geom.P, val = geom.A * Math.pow(R, 2/3)
        At(mid, geom) ==
            IF geom.P = 0 THEN Iteration(mid, max, FALSE, mid)
            ELSE Compare(mid, Times(geom.A, Math_pow23(Divide(geom.A, geom.P))))
    IN  At(Midpoint(min, max), getGeometry(type, Midpoint(min, max), p))

CriticalDepthIteration(type, p, unit, min, max) ==
    LET Compare(mid, val) ==
            IF BelowTolerance(Math_abs(val), TOLERANCE) THEN Iteration(min, max, TRUE, mid)
            ELSE IF Lt(val, 0) THEN Iteration(mid, max, FALSE, mid)
            ELSE Iteration(min, mid, FALSE, mid)
        \* val = G * A^3 - Q2 * T
        At(mid, geom) ==
            Compare(mid, Minus(Times(UNIT_CONSTANTS(unit).G, Math_pow3(geom.A)),
                               Times(Math_pow2(p.flowRate), geom.T)))
    IN  At(Midpoint(min, max), getGeometry(type, Midpoint(min, max), p))

\* a mutant of the return after a loop: the upper end of the bracket
FinalDepth_UpperEnd(min, max) == max

\* "return (min + max) / 2" after a loop
FinalDepth(min, max) == Midpoint(min, max)

\* The loop "for (i = 0; i < MAX_ITER; i++)" from iteration i on.  An iteration
\* that leaves the bracket as it found it is repeated unchanged by every later
\* one, so the loop's result is then the final depth of that bracket.
RECURSIVE NormalDepthLoop(_, _, _, _, _, _)
NormalDepthLoop(type, p, target, i, min, max) ==
    LET After(it) ==
            IF it.returned THEN it.mid
            ELSE IF it.min = min /\ it.max = max THEN FinalDepth(min, max)
            ELSE NormalDepthLoop(type, p, target, i + 1, it.min, it.max)
    IN  IF i >= MAX_ITER THEN FinalDepth(min, max)
        ELSE After(NormalDepthIteration(type, p, target, min, max))

solveNormalDepth(type, p, unit) ==
    NormalDepthLoop(type, p, NormalDepthTarget(p, unit), 0, 0, BracketMax(type, p))

RECURSIVE CriticalDepthLoop(_, _, _, _, _, _)
CriticalDepthLoop(type, p, unit, i, min, max) ==
    LET After(it) ==
            IF it.returned THEN it.mid
            ELSE IF it.min = min /\ it.max = max THEN FinalDepth(min, max)
            ELSE CriticalDepthLoop(type, p, unit, i + 1, it.min, it.max)
    IN  IF i >= MAX_ITER THEN FinalDepth(min, max)
        ELSE After(CriticalDepthIteration(type, p, unit, min, max))

solveCriticalDepth(type, p, unit) ==
    CriticalDepthLoop(type, p, unit, 0, 0, BracketMax(type, p))

(***************************************************************************)
(* The iterations of solveDepthFromEnergy (part_003 114-153).              *)
(***************************************************************************)
\* E = y + V^2 / (2 G) with V = Q / A where A > 0, else 0 (lines 135-136)
SpecificEnergyAt(type, p, unit, y) ==
    LET OfV(V) == Plus(y, Divide(Times(V, V), Times(Num(2), UNIT_CONSTANTS(unit).G)))
        Of(geom) == OfV(IF Gt(geom.A, 0) THEN Divide(p.flowRate, geom.A) ELSE 0)
    IN  Of(getGeometry(type, y, p))

\* Ec = yc + Vc^2 / (2 G) with Vc = Q / A(yc), unguarded (lines 117-119, 261-263)
CriticalEnergy(type, p, Q, unit, yc) ==
    LET OfV(Vc) == Plus(yc, Divide(Times(Vc, Vc), Times(Num(2), UNIT_CONSTANTS(unit).G)))
    IN  OfV(Divide(Q, getGeometry(type, yc, p).A))

EnergyIteration(type, p, E, unit, regime, min, max) ==
    LET Compare(mid, E_calc) ==
            IF BelowTolerance(Math_abs(Minus(E_calc, E)), ENERGY_TOLERANCE)
            THEN Iteration(min, max, TRUE, mid)
            ELSE IF regime = "Supercritical"
            THEN (IF Gt(E_calc, E) THEN Iteration(mid, max, FALSE, mid)
                  ELSE Iteration(min, mid, FALSE, mid))
            ELSE (IF Lt(E_calc, E) THEN Iteration(mid, max, FALSE, mid)
                  ELSE Iteration(min, mid, FALSE, mid))
        At(mid) == Compare(mid, SpecificEnergyAt(type, p, unit, mid))
    IN  At(Midpoint(min, max))

ENERGY_MAX_ITER == 50

RECURSIVE EnergyLoop(_, _, _, _, _, _, _, _)
EnergyLoop(type, p, E, unit, regime, i, min, max) ==
    LET After(it) ==
            IF it.returned THEN it.mid
            ELSE IF it.min = min /\ it.max = max THEN FinalDepth(min, max)
            ELSE EnergyLoop(type, p, E, unit, regime, i + 1, it.min, it.max)
    IN  IF i >= ENERGY_MAX_ITER THEN FinalDepth(min, max)
        ELSE After(EnergyIteration(type, p, E, unit, regime, min, max))

\* the lower end 0.01 of the supercritical bracket
SUPERCRITICAL_MIN == 100

(***************************************************************************)
(* The public calculators.                                                 *)
(***************************************************************************)
\* a mutant of the velocity of calculateSectionProperties: no guard A > 0
SectionVelocity_Unguarded(Q, A) == Divide(Q, A)

\* V = geom.A > 0 ? p.flowRate / geom.A : 0
SectionVelocity(Q, A) == IF Gt(A, 0) THEN Divide(Q, A) ELSE 0

calculateSectionProperties(type, y, p, unit) ==
    LET G == UNIT_CONSTANTS(unit).G
        WithV(geom, V) ==
            [depth |-> y,
             area |-> geom.A,
             perimeter |-> geom.P,
             hydraulicRadius |-> IF Gt(geom.P, 0) THEN Divide(geom.A, geom.P) ELSE 0,
             topWidth |-> geom.T,
             specificEnergy |-> Plus(y, Divide(Math_pow2(V), Times(Num(2), G))),
             specificForce |->
                 IF Gt(geom.A, 0)
                 THEN Plus(Divide(Math_pow2(p.flowRate), Times(G, geom.A)),
                           Times(geom.A, geom.centroidDepth))
                 ELSE 0,
             velocity |-> V]
        With(geom) == WithV(geom, SectionVelocity(p.flowRate, geom.A))
    IN  With(getGeometry(type, y, p))

\* the result's optional error field, when it is not set
NoError == "(no error)"

\* a mutant of the first validation: the slope is not checked
NotAllPositive_NoSlope(p) == Le(p.manningN, 0) \/ Le(p.flowRate, 0)

\* "p.slope <= 0 || p.manningN <= 0 || p.flowRate <= 0"
NotAllPositive(p) == Le(p.slope, 0) \/ Le(p.manningN, 0) \/ Le(p.flowRate, 0)

\* the message of the Error the validation throws, NoError when it throws none
ValidationError(type, p) ==
    IF NotAllPositive(p) THEN "Slope, n, and Q must be positive."
    ELSE IF type = "Circular" /\ Le(p.diameter, 0) THEN "Diameter must be positive."
    ELSE IF type = "Rectangular" /\ Le(p.width, 0) THEN "Width must be positive."
    ELSE NoError

\* the catch branch of calculateFlow
ErrorResult(message) ==
    [normalDepth |-> 0, criticalDepth |-> 0, velocity |-> 0, froudeNumber |-> 0,
     flowRegime |-> "Critical", criticalVelocity |-> 0, error |-> message]

FR_SUBCRITICAL == 9900
FR_SUPERCRITICAL == 10100

\* a mutant of the classifier: no deadband around Fr = 1
FlowRegime_NoDeadband(Fr) ==
    IF Lt(Fr, Num(1)) THEN "Subcritical"
    ELSE IF Gt(Fr, Num(1)) THEN "Supercritical"
    ELSE "Critical"

FlowRegime(Fr) ==
    IF Lt(Fr, FR_SUBCRITICAL) THEN "Subcritical"
    ELSE IF Gt(Fr, FR_SUPERCRITICAL) THEN "Supercritical"
    ELSE "Critical"

\* calculateFlow after its two solver calls
FlowResult(type, p, unit, yn, yc) ==
    LET G == UNIT_CONSTANTS(unit).G
        WithFr(V, Fr, Vc) ==
            [normalDepth |-> yn, criticalDepth |-> yc, velocity |-> V,
             froudeNumber |-> Fr, flowRegime |-> FlowRegime(Fr),
             criticalVelocity |-> Vc, error |-> NoError]
        \* Fr = V / Math.sqrt(G * D_hyd)
        WithV(V, D_hyd, Vc) == WithFr(V, Divide(V, Math_sqrt(Times(G, D_hyd))), Vc)
        With(geomN, geomC) ==
            WithV(Divide(p.flowRate, geomN.A), Divide(geomN.A, geomN.T),
                  Divide(p.flowRate, geomC.A))
    IN  With(getGeometry(type, yn, p), getGeometry(type, yc, p))

calculateFlow(type, p, unit) ==
    IF ValidationError(type, p) # NoError THEN ErrorResult(ValidationError(type, p))
    ELSE FlowResult(type, p, unit, solveNormalDepth(type, p, unit),
                    solveCriticalDepth(type, p, unit))

(***************************************************************************)
(* Inputs of the calculators: the defaults of types.ts, each default with  *)
(* one field zeroed or negated, and rectangular channels near the critical *)
(* slope, outside the solver's bracket and with a small discharge.         *)
(***************************************************************************)
InputParams(q, s, n, b, z, d) ==
    [flowRate |-> q, slope |-> s, manningN |-> n, width |-> b, sideSlope |-> z,
     diameter |-> d]

DEFAULT_PARAMS(type) ==
    IF type = "Rectangular" THEN InputParams(Num(10), 10, 130, Num(5), 0, 0)
    ELSE IF type = "Trapezoidal" THEN InputParams(Num(10), 10, 130, Num(3), Num(2), 0)
    ELSE IF type = "Triangular" THEN InputParams(Num(5), 50, 130, 0, 15000, 0)
    ELSE InputParams(Num(2), 20, 130, 0, 0, Num(2))

ParamFields == {"flowRate", "slope", "manningN", "width", "sideSlope", "diameter"}

\* the fields calculateFlow validates for a type
ValidatedFields(type) ==
    {"flowRate", "slope", "manningN"}
        \cup (IF type = "Circular" THEN {"diameter"} ELSE {})
        \cup (IF type = "Rectangular" THEN {"width"} ELSE {})

DegenerateCases ==
    {<<t, [DEFAULT_PARAMS(t) EXCEPT ![f] = 0]>> : t \in ChannelTypes, f \in ParamFields}
        \cup UNION {{<<t, [DEFAULT_PARAMS(t) EXCEPT ![f] = -Num(1)]>> :
                        f \in ValidatedFields(t)} : t \in ChannelTypes}

SpecialCases ==
    {<<"Rectangular", [DEFAULT_PARAMS("Rectangular") EXCEPT !.slope = sl]>> :
        sl \in {25, 26, 27}}
        \cup {<<"Rectangular",
                [DEFAULT_PARAMS("Rectangular") EXCEPT !.slope = 26, !.manningN = n]>> :
                  n \in {129, 131}}
        \cup {<<"Rectangular", [DEFAULT_PARAMS("Rectangular") EXCEPT !.width = 1000]>>,
              <<"Rectangular", [DEFAULT_PARAMS("Rectangular") EXCEPT !.flowRate = 1000]>>,
              <<"Rectangular", [DEFAULT_PARAMS("Rectangular") EXCEPT !.flowRate = 5000]>>,
              <<"Circular", [DEFAULT_PARAMS("Circular") EXCEPT !.flowRate = Num(50)]>>,
              \* a sheet of water, 1000 wide: critical depth 0.005
              <<"Rectangular",
                [DEFAULT_PARAMS("Rectangular") EXCEPT !.width = Num(1000), !.flowRate = 11070]>>}

CalculatorCases ==
    {<<t, DEFAULT_PARAMS(t)>> : t \in ChannelTypes} \cup DegenerateCases \cup SpecialCases

\* depths at which the section properties and the geometry are asked for
CustomDepths == {-Num(1), 0, 1, Num(1)}

\* before calculateFlow returned, and before a solver ended
NoResult == [pending |-> TRUE]
\* before the first call of a function
NoCall == [called |-> FALSE]

VARIABLES
    cfArgs,        \* calculateFlow's arguments: type, p, unit
    cfPc,          \* where calculateFlow stands
    cfLoop,        \* the running solver loop: i, min, max
    cfNormal,      \* how solveNormalDepth ended: depth, exit, min, max, i
    cfCritical,    \* how solveCriticalDepth ended
    result,        \* what calculateFlow returned
    sectionProps,  \* the last calculateSectionProperties call: y and what it returned
    geometry,      \* the last getGeometry call: y and what it returned
    pArgs,         \* calculateMultiReachProfile's arguments
    pPc,           \* where calculateMultiReachProfile stands
    p_i,           \* i: the place in processingOrder of the reach at hand (from 0)
    currentDepth,  \* the depth handed from one reach to the next
    p_y,           \* y: the depth of the integration
    p_x_local,     \* x_local: the local distance of the integration
    p_step,        \* step: the step of the integration
    sectionPoints, \* the points of the reach at hand
    allPoints,     \* the points of the reaches swept so far
    profile,       \* what calculateMultiReachProfile returned
    reaches,       \* per reach swept: its locals at entry
    rounding,      \* which way the division of line 275 rounds an inexact quotient
    caller,        \* what the caller holds: the arguments as it passed them, and
                   \* what an earlier call with them returned
    call,          \* the last call of solveNormalDepth with another roughness
    energy,        \* the last call of solveDepthFromEnergy: E, regime, yc, Ec, and
                   \* how it ended
    app,           \* App's state: unit, activeTab, params, result, analysisMode,
                   \* customDepth and sectionProps
    changed,       \* the effects of App whose dependencies changed since they ran
    toggles        \* what the form held before each of the latest toggles of the
                   \* unit that no other handler separates: the last two of them

calcVars == <<cfArgs, cfPc, cfLoop, cfNormal, cfCritical, result, sectionProps, geometry,
              call, energy>>

profileVars == <<pArgs, pPc, p_i, currentDepth, p_y, p_x_local, p_step, sectionPoints,
                 allPoints, profile, reaches, rounding, caller>>

appVars == <<app, changed, toggles>>

vars == <<calcVars, profileVars, appVars>>

\* App is not mounted
AppIdle ==
    /\ app = [mounted |-> FALSE]
    /\ changed = {}
    /\ toggles = <<>>

\* calculateMultiReachProfile is not running
ProfileIdle ==
    /\ pArgs = [called |-> FALSE]
    /\ pPc = "idle"
    /\ p_i = 0
    /\ currentDepth = 0
    /\ p_y = 0
    /\ p_x_local = 0
    /\ p_step = 0
    /\ sectionPoints = <<>>
    /\ allPoints = <<>>
    /\ profile = <<>>
    /\ reaches = <<>>
    /\ rounding = "down"
    /\ caller = [called |-> FALSE]

IdleLoop == [i |-> 0, min |-> 0, max |-> 0, target |-> 0]

StartLoop(type, p, target) ==
    [i |-> 0, min |-> 0, max |-> BracketMax(type, p), target |-> target]

InitCalc ==
    /\ \E c \in CalculatorCases, u \in UnitSystems :
          cfArgs = [type |-> c[1], p |-> c[2], unit |-> u]
    /\ cfPc = "validate"
    /\ cfLoop = IdleLoop
    /\ cfNormal = NoResult
    /\ cfCritical = NoResult
    /\ result = NoResult
    /\ sectionProps = NoCall
    /\ geometry = NoCall
    /\ call = NoCall
    /\ energy = NoCall
    /\ ProfileIdle
    /\ AppIdle

\* calculations.ts 192-194: the validation, and the catch branch when it throws
Validate ==
    /\ cfPc = "validate"
    /\ \E thrown \in {ValidationError(cfArgs.type, cfArgs.p)} :
       IF thrown # NoError
       THEN /\ result' = ErrorResult(thrown)
            /\ cfPc' = "done"
            /\ UNCHANGED cfLoop
       ELSE /\ cfPc' = "normal"
            /\ cfLoop' = StartLoop(cfArgs.type, cfArgs.p,
                                   NormalDepthTarget(cfArgs.p, cfArgs.unit))
            /\ UNCHANGED result
    /\ UNCHANGED <<cfArgs, cfNormal, cfCritical, sectionProps, geometry>>
    /\ UNCHANGED <<call, energy, profileVars, appVars>>

SolverExit(depth, exit) ==
    [depth |-> depth, exit |-> exit, min |-> cfLoop.min, max |-> cfLoop.max, i |-> cfLoop.i]

\* one iteration of solveNormalDepth's loop
NormalDepthStep ==
    /\ cfPc = "normal"
    /\ cfLoop.i < MAX_ITER
    /\ \E it \in {NormalDepthIteration(cfArgs.type, cfArgs.p, cfLoop.target,
                                      cfLoop.min, cfLoop.max)} :
           IF it.returned
           THEN /\ cfNormal' = SolverExit(it.mid, "tolerance")
                /\ cfPc' = "critical"
                /\ cfLoop' = StartLoop(cfArgs.type, cfArgs.p, 0)
           ELSE /\ cfLoop' = [cfLoop EXCEPT !.i = cfLoop.i + 1, !.min = it.min,
                                             !.max = it.max]
                /\ UNCHANGED <<cfNormal, cfPc>>
    /\ UNCHANGED <<cfArgs, cfCritical, result, sectionProps, geometry>>
    /\ UNCHANGED <<call, energy, profileVars, appVars>>

\* solveNormalDepth's return after MAX_ITER iterations
NormalDepthCeiling ==
    /\ cfPc = "normal"
    /\ cfLoop.i >= MAX_ITER
    /\ cfNormal' = SolverExit(FinalDepth(cfLoop.min, cfLoop.max), "ceiling")
    /\ cfPc' = "critical"
    /\ cfLoop' = StartLoop(cfArgs.type, cfArgs.p, 0)
    /\ UNCHANGED <<cfArgs, cfCritical, result, sectionProps, geometry>>
    /\ UNCHANGED <<call, energy, profileVars, appVars>>

\* one iteration of solveCriticalDepth's loop
CriticalDepthStep ==
    /\ cfPc = "critical"
    /\ cfLoop.i < MAX_ITER
    /\ \E it \in {CriticalDepthIteration(cfArgs.type, cfArgs.p, cfArgs.unit,
                                        cfLoop.min, cfLoop.max)} :
           IF it.returned
           THEN /\ cfCritical' = SolverExit(it.mid, "tolerance")
                /\ cfPc' = "finish"
                /\ cfLoop' = IdleLoop
           ELSE /\ cfLoop' = [cfLoop EXCEPT !.i = cfLoop.i + 1, !.min = it.min,
                                             !.max = it.max]
                /\ UNCHANGED <<cfCritical, cfPc>>
    /\ UNCHANGED <<cfArgs, cfNormal, result, sectionProps, geometry>>
    /\ UNCHANGED <<call, energy, profileVars, appVars>>

\* solveCriticalDepth's return after MAX_ITER iterations
CriticalDepthCeiling ==
    /\ cfPc = "critical"
    /\ cfLoop.i >= MAX_ITER
    /\ cfCritical' = SolverExit(FinalDepth(cfLoop.min, cfLoop.max), "ceiling")
    /\ cfPc' = "finish"
    /\ cfLoop' = IdleLoop
    /\ UNCHANGED <<cfArgs, cfNormal, result, sectionProps, geometry>>
    /\ UNCHANGED <<call, energy, profileVars, appVars>>

\* calculations.ts 198-220: the result of a validated call
Finish ==
    /\ cfPc = "finish"
    /\ result' = FlowResult(cfArgs.type, cfArgs.p, cfArgs.unit,
                            cfNormal.depth, cfCritical.depth)
    /\ cfPc' = "done"
    /\ UNCHANGED <<cfArgs, cfLoop, cfNormal, cfCritical, sectionProps, geometry>>
    /\ UNCHANGED <<call, energy, profileVars, appVars>>

\* the depths the caller asks the section properties for (App.tsx 112-115)
AnalysisDepths == {result.normalDepth, result.criticalDepth} \cup CustomDepths

\* a call of calculateSectionProperties with calculateFlow's arguments
SectionPropertiesCall ==
    /\ cfPc = "done"
    /\ \E y \in AnalysisDepths :
          sectionProps' =
              [called |-> TRUE, y |-> y,
               out |-> calculateSectionProperties(cfArgs.type, y, cfArgs.p, cfArgs.unit)]
    /\ UNCHANGED <<cfArgs, cfPc, cfLoop, cfNormal, cfCritical, result, geometry>>
    /\ UNCHANGED <<call, energy, profileVars, appVars>>

\* a call of getGeometry
GeometryCall ==
    /\ cfPc = "done"
    /\ \E y \in CustomDepths :
          geometry' = [called |-> TRUE, y |-> y, out |-> getGeometry(cfArgs.type, y, cfArgs.p)]
    /\ UNCHANGED <<cfArgs, cfPc, cfLoop, cfNormal, cfCritical, result, sectionProps>>
    /\ UNCHANGED <<call, energy, profileVars, appVars>>

\* the roughness values a solved depth is compared across: two and three
\* times manningN
OtherRoughness(n) == {2 * n, 3 * n}

\* a call of solveNormalDepth with calculateFlow's arguments and another
\* roughness, straight after calculateFlow returned
OtherRoughnessCall ==
    /\ cfPc = "done"
    /\ cfNormal # NoResult
    /\ call = NoCall
    /\ sectionProps = NoCall
    /\ geometry = NoCall
    /\ \E n \in OtherRoughness(cfArgs.p.manningN) :
          call' = [called |-> TRUE, manningN |-> n,
                   out |-> solveNormalDepth(cfArgs.type, [cfArgs.p EXCEPT !.manningN = n],
                                            cfArgs.unit)]
    /\ UNCHANGED <<cfArgs, cfPc, cfLoop, cfNormal, cfCritical, result, sectionProps,
                   geometry>>
    /\ UNCHANGED <<energy, profileVars, appVars>>

\* the target energies a depth is asked for: half the critical energy, the
\* critical energy and twice the critical energy
EnergyTargets(Ec) == {Divide(Ec, Num(2)), Ec, Times(Ec, Num(2))}

EnergyRegimes == {"Subcritical", "Supercritical"}

\* part_003 114-131: a call of solveDepthFromEnergy with calculateFlow's
\* arguments, straight after calculateFlow returned; yc is the depth the
\* call of solveCriticalDepth with these arguments returns
EnergyCall ==
    /\ cfPc = "done"
    /\ cfCritical # NoResult
    /\ energy = NoCall /\ call = NoCall /\ sectionProps = NoCall /\ geometry = NoCall
    /\ \E regime \in EnergyRegimes,
          Ec \in {CriticalEnergy(cfArgs.type, cfArgs.p, cfArgs.p.flowRate, cfArgs.unit,
                                 cfCritical.depth)} :
          \E E \in EnergyTargets(Ec) :
             IF Lt(E, Ec)
             THEN /\ energy' = [called |-> TRUE, E |-> E, regime |-> regime,
                                yc |-> cfCritical.depth, Ec |-> Ec,
                                out |-> SolverExit(cfCritical.depth, "critical")]
                  /\ cfPc' = "energyDone"
                  /\ UNCHANGED cfLoop
             ELSE /\ energy' = [called |-> TRUE, E |-> E, regime |-> regime,
                                yc |-> cfCritical.depth, Ec |-> Ec, out |-> NoResult]
                  /\ cfPc' = "energy"
                  /\ cfLoop' =
                         IF regime = "Supercritical"
                         THEN [i |-> 0, min |-> SUPERCRITICAL_MIN, max |-> cfCritical.depth,
                               target |-> E]
                         ELSE [i |-> 0, min |-> cfCritical.depth,
                               max |-> Math_max(Times(cfCritical.depth, Num(5)),
                                                Times(E, 15000)),
                               target |-> E]
    /\ UNCHANGED <<cfArgs, cfNormal, cfCritical, result, sectionProps, geometry>>
    /\ UNCHANGED <<call, profileVars, appVars>>

\* part_003 132-150: one iteration of solveDepthFromEnergy's loop
EnergyStep ==
    /\ cfPc = "energy"
    /\ cfLoop.i < ENERGY_MAX_ITER
    /\ \E it \in {EnergyIteration(cfArgs.type, cfArgs.p, energy.E, cfArgs.unit,
                                   energy.regime, cfLoop.min, cfLoop.max)} :
           IF it.returned
           THEN /\ energy' = [energy EXCEPT !.out = SolverExit(it.mid, "tolerance")]
                /\ cfPc' = "energyDone"
                /\ cfLoop' = IdleLoop
           ELSE /\ cfLoop' = [cfLoop EXCEPT !.i = cfLoop.i + 1, !.min = it.min,
                                             !.max = it.max]
                /\ UNCHANGED <<energy, cfPc>>
    /\ UNCHANGED <<cfArgs, cfNormal, cfCritical, result, sectionProps, geometry>>
    /\ UNCHANGED <<call, profileVars, appVars>>

\* part_003 152: solveDepthFromEnergy's return after its 50 iterations
EnergyCeiling ==
    /\ cfPc = "energy"
    /\ cfLoop.i >= ENERGY_MAX_ITER
    /\ energy' = [energy EXCEPT !.out = SolverExit(FinalDepth(cfLoop.min, cfLoop.max),
                                                   "ceiling")]
    /\ cfPc' = "energyDone"
    /\ cfLoop' = IdleLoop
    /\ UNCHANGED <<cfArgs, cfNormal, cfCritical, result, sectionProps, geometry>>
    /\ UNCHANGED <<call, profileVars, appVars>>

NextCalc ==
    \/ Validate
    \/ NormalDepthStep
    \/ NormalDepthCeiling
    \/ CriticalDepthStep
    \/ CriticalDepthCeiling
    \/ Finish
    \/ SectionPropertiesCall
    \/ GeometryCall
    \/ OtherRoughnessCall
    \/ EnergyCall
    \/ EnergyStep
    \/ EnergyCeiling

SpecCalc == InitCalc /\ [][NextCalc]_vars

(***************************************************************************)
(* calculateMultiReachProfile.                                             *)
(***************************************************************************)
CanalSectionInput(length, inputMode, slope, usElevation, dsElevation) ==
    [length |-> length, inputMode |-> inputMode, slope |-> slope,
     usElevation |-> usElevation, dsElevation |-> dsElevation]

\* lines 177-183: the slope of an Elevation-mode reach is computed
ComputedSection(s) ==
    IF s.inputMode = "Elevation"
    THEN [s EXCEPT !.slope = Divide(Minus(s.usElevation, s.dsElevation), s.length)]
    ELSE s

computedSectionsOf(sections) == [k \in 1..Len(sections) |-> ComputedSection(sections[k])]

BoundaryCondition(location, type, value) ==
    [location |-> location, type |-> type, value |-> value]

\* the most reaches of a profile, and the most steps per reach
MaxReaches == 2
MaxSteps == 3

\* Q = 10, n = 0.03, b = 5: critical depth 0.74, critical slope about 0.014
ProfileParams == InputParams(Num(10), 10, 300, Num(5), 0, 0)

\* a mild reach (S = 0.004) and a steep one (S = 0.04) by slope, and two mild
\* reaches by elevations, 10.4 down to 10.0 and 10.0 down to 9.6
ReachInputs ==
    { CanalSectionInput(Num(100), "Slope", 40, 0, 0),
      CanalSectionInput(Num(100), "Slope", 400, 0, 0),
      CanalSectionInput(Num(100), "Elevation", 0, Num(10) + 4000, Num(10)),
      CanalSectionInput(Num(100), "Elevation", 0, Num(10), Num(10) - 4000) }

\* a steep reach (S = 0.04) of length 24.9: one step up it from depth 1.2
\* ends between 0 and 0.01
ShortReach == CanalSectionInput(Num(25) - 1000, "Slope", 400, 0, 0)

SectionLists ==
    UNION { [1..n -> ReachInputs] : n \in 1..MaxReaches } \cup { <<ShortReach>> }

BoundaryConditions ==
    { BoundaryCondition(loc, "NormalDepth", 0) : loc \in {"Upstream", "Downstream"} }
    \cup { BoundaryCondition(loc, "FixedDepth", 12000) : loc \in {"Upstream", "Downstream"} }
    \cup { BoundaryCondition("Downstream", "CriticalDepth", 0),
           BoundaryCondition("Upstream", "FixedDepth", 0) }

StepCounts == {1, MaxSteps}

\* the slopes of the reaches (lines 177-183) and the parameters of line 204
ReachSlopes == { ComputedSection(r).slope : r \in ReachInputs }

ReachParams == { [ProfileParams EXCEPT !.slope = slope] : slope \in ReachSlopes }

\* solveNormalDepth and solveCriticalDepth of the reaches' parameters: a
\* reach's depths are a function of its parameters alone, computed once
ReachDepths ==
    [params \in ReachParams |->
        [yn |-> solveNormalDepth("Rectangular", params, "SI"),
         yc |-> solveCriticalDepth("Rectangular", params, "SI")]]

\* lines 206 and 437
ReachNormalDepth(type, params, unit) ==
    IF type = "Rectangular" /\ unit = "SI" /\ params \in ReachParams
    THEN ReachDepths[params].yn
    ELSE solveNormalDepth(type, params, unit)

\* lines 207, 259 and 438
ReachCriticalDepth(type, params, unit) ==
    IF type = "Rectangular" /\ unit = "SI" /\ params \in ReachParams
    THEN ReachDepths[params].yc
    ELSE solveCriticalDepth(type, params, unit)

(***************************************************************************)
(* solveDepthFromEnergy: the depth of specific energy E on one branch of   *)
(* the energy curve.                                                       *)
(***************************************************************************)
solveDepthFromEnergy(type, p, E, unit, regime) ==
    LET From(yc) ==
            IF Lt(E, CriticalEnergy(type, p, p.flowRate, unit, yc)) THEN yc
            ELSE IF regime = "Supercritical"
            THEN EnergyLoop(type, p, E, unit, regime, 0, SUPERCRITICAL_MIN, yc)
            ELSE EnergyLoop(type, p, E, unit, regime, 0, yc,
                            Math_max(Times(yc, Num(5)), Times(E, 15000)))
    IN  From(ReachCriticalDepth(type, p, unit))

Reverse(seq) == [k \in 1..Len(seq) |-> seq[Len(seq) + 1 - k]]

\* line 172
isUpstreamCalcOf(bc) == bc.location = "Downstream"

\* a mutant of the execution order: first to last whatever the boundary
processingOrderOf_Forward(bc, cs) ==
    [idx \in 1..Len(cs) |-> [s |-> cs[idx], originalIdx |-> idx - 1]]

\* lines 188-190: the reaches in sweep order, each with its original index (from 0)
processingOrderOf(bc, cs) ==
    IF isUpstreamCalcOf(bc)
    THEN [idx \in 1..Len(cs) |->
             [s |-> Reverse(cs)[idx], originalIdx |-> Len(cs) - 1 - (idx - 1)]]
    ELSE [idx \in 1..Len(cs) |-> [s |-> cs[idx], originalIdx |-> idx - 1]]

\* line 256
JunctionRegime(bc) == IF isUpstreamCalcOf(bc) THEN "Subcritical" ELSE "Supercritical"

ProfilePoint(distance, bedElevation, waterElevation, depth, normalDepthElevation, criticalDepthElevation, sectionIndex) ==
    [distance |-> distance, bedElevation |-> bedElevation,
     waterElevation |-> waterElevation, depth |-> depth,
     normalDepthElevation |-> normalDepthElevation,
     criticalDepthElevation |-> criticalDepthElevation, sectionIndex |-> sectionIndex]

\* a point of the sweep: local distance, placeholder elevations
LocalPoint(x_local, y, originalIdx) == ProfilePoint(x_local, 0, 0, y, 0, 0, originalIdx)

\* a mutant of the boundary condition of the first reach: bc.value whatever the type
BoundaryDepth_ValueOnly(bc, yn, yc) == bc.value

\* lines 213-217
BoundaryDepth(bc, yn, yc) ==
    IF bc.type = "NormalDepth" THEN yn
    ELSE IF bc.type = "CriticalDepth" THEN yc
    ELSE bc.value

\* lines 229-242: the bed elevations the junction uses, 0 for a Slope-mode reach
JunctionElevations(bc, prevSec, currSec) ==
    IF isUpstreamCalcOf(bc)
    THEN [z_prev_end |-> IF prevSec.inputMode = "Elevation" THEN prevSec.usElevation ELSE 0,
          z_curr_start |->
              IF currSec.inputMode = "Elevation" THEN currSec.dsElevation ELSE 0]
    ELSE [z_prev_end |-> IF prevSec.inputMode = "Elevation" THEN prevSec.dsElevation ELSE 0,
          z_curr_start |->
              IF currSec.inputMode = "Elevation" THEN currSec.usElevation ELSE 0]

\* lines 246-251: E_req = E_prev + z_prev_end - z_curr_start
RequiredEnergy(type, baseParams, unit, depth, z) ==
    LET OfV(Vprev) ==
            Minus(Plus(Plus(depth,
                            Divide(Times(Vprev, Vprev),
                                   Times(Num(2), UNIT_CONSTANTS(unit).G))),
                       z.z_prev_end),
                  z.z_curr_start)
    IN  OfV(Divide(baseParams.flowRate, getGeometry(type, depth, baseParams).A))

\* the quotient of line 275 as a double: exact where the division is, else
\* the neighbour of the quotient below or above it
RoundedQuotient(a, b) ==
    LET Of(q) == IF Times(q, b) = a \/ rounding = "down" THEN q ELSE Plus(q, 1)
    IN  Of(Divide(a, b))

\* line 275
StepLength(bc, s, stepPerSection) ==
    Times(RoundedQuotient(s.length, Num(stepPerSection)),
          IF isUpstreamCalcOf(bc) THEN -Num(1) ELSE Num(1))

DEPTH_FLOOR == 100
DEPTH_CEILING == 1000000

\* lines 345-346
ClampDepth(y) == IF Le(y, 0) THEN DEPTH_FLOOR ELSE IF Gt(y, DEPTH_CEILING) THEN DEPTH_CEILING ELSE y

\* lines 319-341: the depth after one standard step from depth y
AdvanceDepth(sectionParams, Q, unit, geom, y, dx) ==
    LET K == UNIT_CONSTANTS(unit).K
        G == UNIT_CONSTANTS(unit).G
        \* dydx = numerator / denominator, dy = dydx * dx
        OfSlopes(Sf, Fr2) ==
            Plus(y, Times(Divide(Minus(sectionParams.slope, Sf), Minus(Num(1), Fr2)), dx))
        Of(V, R, Dh) ==
            OfSlopes(Math_pow2(Divide(Times(sectionParams.manningN, V),
                                      Times(K, Math_pow23(R)))),
                     Divide(Math_pow2(V), Times(G, Dh)))
    IN  Of(Divide(Q, geom.A),
           IF Gt(geom.P, 0) THEN Divide(geom.A, geom.P) ELSE 0,
           Divide(geom.A, geom.T))

\* lines 378-383: sectionStartDist[k] for the reach of original index k - 1
RECURSIVE SectionStartDist(_, _)
SectionStartDist(cs, k) ==
    IF k = 1 THEN 0 ELSE Plus(SectionStartDist(cs, k - 1), cs[k - 1].length)

\* null in z_nodes
Null == INF + 2

\* a mutant of the known nodes: the supplied elevations are not taken
KnownNode_Unknown(cs, k) == Null

\* lines 393-401: the known nodes; a later reach overwrites the node it shares
KnownNode(cs, k) ==
    IF k <= Len(cs) /\ cs[k].inputMode = "Elevation" THEN cs[k].usElevation
    ELSE IF k > 1 /\ cs[k - 1].inputMode = "Elevation" THEN cs[k - 1].dsElevation
    ELSE Null

\* arbitrary datum of node 0 (line 404)
DATUM == 1000000

\* lines 404-410: node k (from 1) after the forward pass
RECURSIVE ForwardNode(_, _)
ForwardNode(cs, k) ==
    IF KnownNode(cs, k) # Null THEN KnownNode(cs, k)
    ELSE IF k = 1 THEN DATUM
    ELSE Minus(ForwardNode(cs, k - 1), Times(cs[k - 1].slope, cs[k - 1].length))

\* lines 417-421: the backward pass fills a node that is still null; the forward
\* pass left none
z_nodes(cs) == [k \in 1..(Len(cs) + 1) |-> ForwardNode(cs, k)]

\* a mutant of the comparator of the final sort: descending distance
CompareDistance_Descending(a, b) == Minus(b.distance, a.distance)

\* line 458: (a, b) => a.distance - b.distance
CompareDistance(a, b) == Minus(a.distance, b.distance)

\* Array.prototype.sort is stable: an element goes behind every element that
\* does not compare greater than it
RECURSIVE InsertSorted(_, _)
InsertSorted(sorted, e) ==
    IF sorted = <<>> THEN <<e>>
    ELSE IF Gt(CompareDistance(sorted[Len(sorted)], e), 0)
    THEN Append(InsertSorted(SubSeq(sorted, 1, Len(sorted) - 1), e), sorted[Len(sorted)])
    ELSE Append(sorted, e)

RECURSIVE SortByDistance(_)
SortByDistance(points) ==
    IF points = <<>> THEN <<>>
    ELSE InsertSorted(SortByDistance(SubSeq(points, 1, Len(points) - 1)),
                      points[Len(points)])

\* lines 425-429: the points of allPoints with a section index, in their order
RECURSIVE PointsOfSection(_, _)
PointsOfSection(points, idx) ==
    IF points = <<>> THEN <<>>
    ELSE IF points[1].sectionIndex = idx
    THEN <<points[1]>> \o PointsOfSection(Tail(points), idx)
    ELSE PointsOfSection(Tail(points), idx)

\* a mutant of the point in global coordinates: every elevation is taken from
\* the start node of the reach
FinalPoint_StartNode(pt, idx, s, startX, startZ, yn, yc) ==
    ProfilePoint(Plus(startX, pt.distance), startZ, Plus(startZ, pt.depth), pt.depth,
                 Plus(startZ, yn), Plus(startZ, yc), idx)

\* lines 440-455: a point in global coordinates
FinalPoint(pt, idx, s, startX, startZ, yn, yc) ==
    LET OfBed(bedZ) ==
            ProfilePoint(Plus(startX, pt.distance), bedZ, Plus(bedZ, pt.depth), pt.depth,
                         Plus(bedZ, yn), Plus(bedZ, yc), idx)
    IN  OfBed(Minus(startZ, Times(s.slope, pt.distance)))

\* lines 431-456: the final points of the reaches of original index k - 1 and up
RECURSIVE FinalPointsFrom(_, _, _, _, _, _)
FinalPointsFrom(type, baseParams, unit, cs, points, k) ==
    LET Mapped(pts, startX, startZ, yn, yc) ==
            [j \in 1..Len(pts) |-> FinalPoint(pts[j], k - 1, cs[k], startX, startZ, yn, yc)]
    IN  IF k > Len(cs) THEN <<>>
        ELSE Mapped(PointsOfSection(points, k - 1), SectionStartDist(cs, k),
                    z_nodes(cs)[k],
                    ReachNormalDepth(type, [baseParams EXCEPT !.slope = cs[k].slope], unit),
                    ReachCriticalDepth(type, [baseParams EXCEPT !.slope = cs[k].slope],
                                       unit))
             \o FinalPointsFrom(type, baseParams, unit, cs, points, k + 1)


Init ==
    /\ \E sections \in SectionLists, bc \in BoundaryConditions, n \in StepCounts :
          pArgs = [called |-> TRUE, type |-> "Rectangular", baseParams |-> ProfileParams,
                   sections |-> sections, bc |-> bc, unit |-> "SI",
                   stepPerSection |-> n]
    /\ rounding \in (IF \A k \in 1..Len(pArgs.sections) :
                           Times(Divide(pArgs.sections[k].length, Num(pArgs.stepPerSection)),
                                 Num(pArgs.stepPerSection)) = pArgs.sections[k].length
                     THEN {"down"} ELSE {"down", "up"})
    /\ caller = [sections |-> pArgs.sections, baseParams |-> pArgs.baseParams,
                 bc |-> pArgs.bc, again |-> FALSE, earlier |-> <<>>]
    /\ pPc = "prepare"
    /\ p_i = 0
    /\ currentDepth = 0
    /\ p_y = 0
    /\ p_x_local = 0
    /\ p_step = 0
    /\ sectionPoints = <<>>
    /\ allPoints = <<>>
    /\ profile = <<>>
    /\ reaches = <<>>
    /\ cfArgs = [type |-> "Rectangular", p |-> ProfileParams, unit |-> "SI"]
    /\ cfPc = "idle"
    /\ cfLoop = IdleLoop
    /\ cfNormal = NoResult
    /\ cfCritical = NoResult
    /\ result = NoResult
    /\ sectionProps = NoCall
    /\ geometry = NoCall
    /\ call = NoCall
    /\ energy = NoCall
    /\ AppIdle

computedSections == computedSectionsOf(pArgs.sections)

isUpstreamCalc == isUpstreamCalcOf(pArgs.bc)

\* processingOrder[i], lines 203-204
Current == processingOrderOf(pArgs.bc, computedSections)[p_i + 1]

sectionParams == [pArgs.baseParams EXCEPT !.slope = Current.s.slope]

\* a mutant of the map of lines 177-183: the slope is written into the
\* caller's reaches
sectionsAfterMap_InPlace(sections) == computedSectionsOf(sections)

\* lines 177-183: map and the object spread build a new array of new reaches;
\* the array the caller passed and its reaches are as they were
sectionsAfterMap(sections) == sections

\* a mutant of the points a call starts from: those of the call before
FreshPoints_Kept == allPoints

\* line 167: allPoints is local to the call and starts empty
FreshPoints == <<>>

\* lines 166-192: the locals before the sweep
Prepare ==
    /\ pPc = "prepare"
    /\ pArgs' = [pArgs EXCEPT !.sections = sectionsAfterMap(pArgs.sections)]
    /\ currentDepth' = pArgs.bc.value
    /\ allPoints' = FreshPoints
    /\ pPc' = "enter"
    /\ UNCHANGED <<rounding, caller, p_i, p_y, p_x_local, p_step, sectionPoints, profile,
                   reaches>>
    /\ UNCHANGED <<calcVars, appVars>>

\* the caller keeps what the call returned and calls again with the arguments
\* it holds
CallAgain ==
    /\ pPc = "done"
    /\ ~caller.again
    /\ caller' = [caller EXCEPT !.again = TRUE, !.earlier = profile]
    /\ pArgs' = [pArgs EXCEPT !.sections = caller.sections,
                              !.baseParams = caller.baseParams, !.bc = caller.bc]
    /\ pPc' = "prepare"
    /\ p_i' = 0
    /\ currentDepth' = 0
    /\ p_y' = 0
    /\ p_x_local' = 0
    /\ p_step' = 0
    /\ sectionPoints' = <<>>
    /\ profile' = <<>>
    /\ reaches' = <<>>
    /\ UNCHANGED <<rounding, allPoints>>
    /\ UNCHANGED <<calcVars, appVars>>

\* lines 277-312: the integration of the reach starts from the entry depth
StartReach(depth, entry) ==
    /\ currentDepth' = depth
    /\ p_y' = depth
    /\ p_x_local' = IF isUpstreamCalc THEN Current.s.length ELSE 0
    /\ p_step' = 0
    /\ sectionPoints' =
           << LocalPoint(IF isUpstreamCalc THEN Current.s.length ELSE 0, depth,
                         Current.originalIdx) >>
    /\ reaches' = Append(reaches, entry)
    /\ pPc' = "integrate"
    /\ UNCHANGED <<pArgs, rounding, caller, p_i, allPoints, profile>>
    /\ UNCHANGED <<calcVars, appVars>>

ReachEntry(yn, yc, regime, E_req, Ec, choke, depth) ==
    [s |-> Current.s, originalIdx |-> Current.originalIdx, yn |-> yn, yc |-> yc,
     regime |-> regime, E_req |-> E_req, Ec |-> Ec, choke |-> choke, depth |-> depth,
     from |-> currentDepth]

\* lines 206-217: the first reach of the sweep takes the boundary condition
BoundaryEntry ==
    /\ pPc = "enter"
    /\ p_i = 0
    /\ \E yn \in {ReachNormalDepth(pArgs.type, sectionParams, pArgs.unit)},
          yc \in {ReachCriticalDepth(pArgs.type, sectionParams, pArgs.unit)} :
          \E depth \in {BoundaryDepth(pArgs.bc, yn, yc)} :
             StartReach(depth, ReachEntry(yn, yc, "(none)", 0, 0, FALSE, depth))

\* E_req of the junction with the reach swept before, lines 222-251
JunctionEnergy ==
    RequiredEnergy(pArgs.type, pArgs.baseParams, pArgs.unit, currentDepth,
                   JunctionElevations(pArgs.bc,
                                      processingOrderOf(pArgs.bc, computedSections)[p_i].s,
                                      Current.s))

\* a mutant of line 266: a choked reach is entered at its normal depth
ChokeDepth_Normal(yn, yc_curr) == yn

\* line 266: the entry depth of a choked reach
ChokeDepth(yn, yc_curr) == yc_curr

\* lines 259-266: the required energy is below the critical energy
JunctionChoke ==
    /\ pPc = "enter"
    /\ p_i > 0
    /\ \E yn \in {ReachNormalDepth(pArgs.type, sectionParams, pArgs.unit)},
          yc \in {ReachCriticalDepth(pArgs.type, sectionParams, pArgs.unit)},
          E_req \in {JunctionEnergy} :
          \E Ec \in {CriticalEnergy(pArgs.type, sectionParams, pArgs.baseParams.flowRate,
                                    pArgs.unit, yc)} :
             /\ Lt(E_req, Ec)
             /\ \E depth \in {ChokeDepth(yn, yc)} :
                   StartReach(depth, ReachEntry(yn, yc, JunctionRegime(pArgs.bc), E_req,
                                                Ec, TRUE, depth))

\* lines 267-269: the depth of the required energy on the branch of the regime
JunctionSolve ==
    /\ pPc = "enter"
    /\ p_i > 0
    /\ \E yn \in {ReachNormalDepth(pArgs.type, sectionParams, pArgs.unit)},
          yc \in {ReachCriticalDepth(pArgs.type, sectionParams, pArgs.unit)},
          E_req \in {JunctionEnergy} :
          \E Ec \in {CriticalEnergy(pArgs.type, sectionParams, pArgs.baseParams.flowRate,
                                    pArgs.unit, yc)} :
             /\ ~Lt(E_req, Ec)
             /\ \E depth \in {solveDepthFromEnergy(pArgs.type, sectionParams, E_req,
                                                   pArgs.unit, JunctionRegime(pArgs.bc))} :
                   StartReach(depth, ReachEntry(yn, yc, JunctionRegime(pArgs.bc), E_req,
                                                Ec, FALSE, depth))

\* lines 315-317: the integration loop breaks
LoopBreaks(geom) == Le(p_y, 0) \/ geom.A = 0 \/ geom.T = 0

\* lines 314-357: one step of the integration
IntegrateStep ==
    /\ pPc = "integrate"
    /\ p_step < pArgs.stepPerSection
    /\ \E geom \in {getGeometry(pArgs.type, p_y, sectionParams)},
          dx \in {StepLength(pArgs.bc, Current.s, pArgs.stepPerSection)} :
          /\ ~LoopBreaks(geom)
          /\ \E yNext \in {ClampDepth(AdvanceDepth(sectionParams, pArgs.baseParams.flowRate,
                                                    pArgs.unit, geom, p_y, dx))} :
                /\ p_y' = yNext
                /\ p_x_local' = Plus(p_x_local, dx)
                /\ sectionPoints' =
                       Append(sectionPoints,
                              LocalPoint(Plus(p_x_local, dx), yNext, Current.originalIdx))
    /\ p_step' = p_step + 1
    /\ UNCHANGED <<pArgs, rounding, caller, pPc, p_i, currentDepth, allPoints, profile, reaches>>
    /\ UNCHANGED <<calcVars, appVars>>

\* lines 359-367: the loop is over; the points are stored in the order 0 -> L
StoreReach ==
    /\ pPc = "integrate"
    /\ \/ p_step >= pArgs.stepPerSection
       \/ LoopBreaks(getGeometry(pArgs.type, p_y, sectionParams))
    /\ currentDepth' = p_y
    /\ allPoints' = allPoints \o (IF isUpstreamCalc THEN Reverse(sectionPoints)
                                   ELSE sectionPoints)
    /\ p_i' = p_i + 1
    /\ pPc' = IF p_i + 1 < Len(pArgs.sections) THEN "enter" ELSE "stitch"
    /\ UNCHANGED <<pArgs, rounding, caller, p_y, p_x_local, p_step, sectionPoints, profile, reaches>>
    /\ UNCHANGED <<calcVars, appVars>>

\* lines 375-458: global coordinates, and the sort by distance
Stitch ==
    /\ pPc = "stitch"
    /\ profile' = SortByDistance(FinalPointsFrom(pArgs.type, pArgs.baseParams, pArgs.unit,
                                                 computedSections, allPoints, 1))
    /\ pPc' = "done"
    /\ UNCHANGED <<pArgs, rounding, caller, p_i, currentDepth, p_y, p_x_local, p_step, sectionPoints,
                   allPoints, reaches>>
    /\ UNCHANGED <<calcVars, appVars>>

Next ==
    \/ Prepare
    \/ BoundaryEntry
    \/ JunctionChoke
    \/ JunctionSolve
    \/ IntegrateStep
    \/ StoreReach
    \/ Stitch
    \/ CallAgain

Spec == Init /\ [][Next]_vars

(***************************************************************************)
(* Claims about calculateMultiReachProfile, checked under Spec.            *)
(***************************************************************************)
ProfileReturned == pPc = "done"

Downstream == pArgs.bc.location = "Downstream"

\* C1: the reaches are swept in an order fixed by bc.location alone, from the
\* last reach to the first (original index N-1, ..., 0) for a Downstream
\* boundary and from the first to the last (0, ..., N-1) for an Upstream one,
\* and the junction regime of every reach but the first swept is Subcritical
\* in the first case and Supercritical in the second.
C1_SweepOrder ==
    \A k \in 1..Len(reaches) :
        /\ reaches[k].originalIdx =
               (IF Downstream THEN Len(pArgs.sections) - k ELSE k - 1)
        /\ reaches[k].s = computedSections[reaches[k].originalIdx + 1]
        /\ k > 1 => reaches[k].regime =
                        (IF Downstream THEN "Subcritical" ELSE "Supercritical")
        /\ pPc = "integrate" /\ k = Len(reaches) =>
               \A j \in 1..Len(sectionPoints) :
                   sectionPoints[j].sectionIndex = reaches[k].originalIdx

C1_Witness ==
    /\ ProfileReturned
    /\ Downstream
    /\ Len(reaches) = MaxReaches
    /\ reaches[1].originalIdx = MaxReaches - 1
    /\ reaches[MaxReaches].originalIdx = 0
    /\ reaches[MaxReaches].regime = "Subcritical"

\* the depth the boundary condition asks for at the reach of the boundary end
ExpectedBoundaryDepth ==
    LET Of(params) ==
            IF pArgs.bc.type = "FixedDepth" THEN pArgs.bc.value
            ELSE IF pArgs.bc.type = "NormalDepth"
            THEN solveNormalDepth(pArgs.type, params, pArgs.unit)
            ELSE solveCriticalDepth(pArgs.type, params, pArgs.unit)
        OfReach(reach) == Of([pArgs.baseParams EXCEPT !.slope = reach.slope])
    IN  OfReach(computedSections[IF Downstream THEN Len(pArgs.sections) ELSE 1])

TotalLength == SectionStartDist(computedSections, Len(pArgs.sections) + 1)

\* C2: the first reach swept is entered at bc.value for FixedDepth, at its
\* own normal depth for NormalDepth and at its own critical depth for
\* CriticalDepth, and the point of the returned sequence at the boundary end
\* (the last one, at the total length, for a Downstream boundary, the first
\* one, at distance 0, for an Upstream boundary) carries exactly that depth.
C2_BoundaryDepthHonoured ==
    ProfileReturned =>
        LET Holds(expected, point) ==
                /\ reaches[1].depth = expected
                /\ point.depth = expected
                /\ point.distance = (IF Downstream THEN TotalLength ELSE 0)
        IN  Holds(ExpectedBoundaryDepth,
                  profile[IF Downstream THEN Len(profile) ELSE 1])

C2_Witness ==
    /\ ProfileReturned
    /\ Downstream
    /\ pArgs.bc.type = "NormalDepth"
    /\ Len(pArgs.sections) = MaxReaches
    /\ Len(profile) > MaxReaches
    /\ profile[Len(profile)].depth = reaches[1].yn
    /\ profile[Len(profile)].depth # profile[1].depth

\* C3: for reaches of positive length, either boundary location and a step
\* count of at least 1, the returned sequence is ordered by non-decreasing
\* distance.
C3_SortedByDistance ==
    ProfileReturned =>
        \A k \in 1..(Len(profile) - 1) : Le(profile[k].distance, profile[k + 1].distance)

C3_Witness ==
    /\ ProfileReturned
    /\ Downstream
    /\ Len(pArgs.sections) = MaxReaches
    /\ Len(profile) = MaxReaches * (MaxSteps + 1)
    /\ Lt(profile[1].distance, profile[Len(profile)].distance)
    /\ allPoints[1].sectionIndex = MaxReaches - 1
    /\ profile[1].sectionIndex = 0

\* two adjoining reaches of one positive slope without an elevation break
UniformReaches(cs) ==
    /\ Len(cs) = 2
    /\ cs[1].slope = cs[2].slope
    /\ Gt(cs[1].slope, 0)
    /\ cs[1].inputMode = cs[2].inputMode
    /\ cs[1].inputMode = "Elevation" => cs[1].dsElevation = cs[2].usElevation

\* 0.05: wider than what the solvers' tolerances and the resolution of the
\* friction slope move a depth by
UNIFORM_TOLERANCE == Num(1) \div 20

NearDepth(depth, yn) == Le(Math_abs(Minus(depth, yn)), UNIFORM_TOLERANCE)

\* C4: for two adjoining reaches of one positive slope without an elevation
\* break and the boundary condition NormalDepth at the Downstream end, every
\* point of the returned profile has the normal depth (within tolerance), and
\* the junction solve of the second reach swept returns the normal depth.
C4_UniformFlow ==
    (/\ ProfileReturned
     /\ UniformReaches(computedSections)
     /\ Downstream
     /\ pArgs.bc.type = "NormalDepth")
    => /\ NearDepth(reaches[2].depth, reaches[1].yn)
       /\ \A k \in 1..Len(profile) : NearDepth(profile[k].depth, reaches[1].yn)

\* every reach is given by elevations that fall along it
AllByFallingElevations ==
    \A k \in 1..Len(pArgs.sections) :
        /\ pArgs.sections[k].inputMode = "Elevation"
        /\ Gt(pArgs.sections[k].usElevation, pArgs.sections[k].dsElevation)

\* no reach starts above the end of the reach before it
NoRisingJunction ==
    \A k \in 1..(Len(pArgs.sections) - 1) :
        Ge(pArgs.sections[k].dsElevation, pArgs.sections[k + 1].usElevation)

\* the sum of the lengths of the first k reaches in their original order
RECURSIVE LengthOfFirst(_)
LengthOfFirst(k) ==
    IF k = 0 THEN 0 ELSE Plus(LengthOfFirst(k - 1), pArgs.sections[k].length)

\* the local distance of a point of the profile
LocalDistance(pt) == Minus(pt.distance, LengthOfFirst(pt.sectionIndex))

\* the profile reports the supplied elevations at both ends of every reach
SuppliedElevationsReported ==
    /\ \A k \in 1..Len(profile) :
           LET Matches(pt, reach) ==
                   /\ LocalDistance(pt) = 0 => pt.bedElevation = reach.usElevation
                   /\ LocalDistance(pt) = reach.length =>
                          pt.bedElevation = reach.dsElevation
           IN  Matches(profile[k], pArgs.sections[profile[k].sectionIndex + 1])
    /\ \A k \in 1..Len(pArgs.sections) :
           LET Ends(reach, startZ) ==
                   /\ startZ = reach.usElevation
                   /\ Minus(startZ, Times(reach.slope, reach.length)) = reach.dsElevation
           IN  Ends(computedSections[k], z_nodes(computedSections)[k])

\* the bed elevations of the nodes fall strictly in the downstream direction
NodesFallStrictly ==
    \A k \in 1..Len(pArgs.sections) :
        Gt(z_nodes(computedSections)[k], z_nodes(computedSections)[k + 1])

RECURSIVE EntryOfReach(_, _)
EntryOfReach(idx, k) ==
    IF reaches[k].originalIdx = idx THEN reaches[k] ELSE EntryOfReach(idx, k + 1)

\* C12: every point of the returned profile has waterElevation =
\* bedElevation + depth, normalDepthElevation = bedElevation + the normal
\* depth of its own reach and criticalDepthElevation = bedElevation + the
\* critical depth of its own reach, where bedElevation = the elevation of the
\* start node of its reach - slope * local distance.
C12_PointElevations ==
    ProfileReturned =>
        \A k \in 1..Len(profile) :
            LET Holds(pt, entry, startZ) ==
                    /\ pt.bedElevation =
                           Minus(startZ, Times(entry.s.slope, LocalDistance(pt)))
                    /\ pt.waterElevation = Plus(pt.bedElevation, pt.depth)
                    /\ pt.normalDepthElevation = Plus(pt.bedElevation, entry.yn)
                    /\ pt.criticalDepthElevation = Plus(pt.bedElevation, entry.yc)
            IN  Holds(profile[k], EntryOfReach(profile[k].sectionIndex, 1),
                      z_nodes(computedSections)[profile[k].sectionIndex + 1])

C12_Witness ==
    /\ ProfileReturned
    /\ Len(pArgs.sections) >= 2
    /\ \E k \in 1..Len(profile) :
           /\ profile[k].sectionIndex = 1
           /\ Gt(LocalDistance(profile[k]), 0)
           /\ Gt(profile[k].depth, 0)
           /\ Lt(profile[k].bedElevation, z_nodes(computedSections)[2])
           /\ Gt(profile[k].waterElevation, profile[k].normalDepthElevation)
           /\ Gt(profile[k].normalDepthElevation, profile[k].criticalDepthElevation)

\* C13: global chainage is independent of the sweep direction: every point of
\* reach i has distance = (the sum of the lengths of the reaches 0..i-1 in
\* original order) + its local distance, so all points of reach i lie in
\* [offset_i, offset_i + length_i], for both boundary locations.
C13_GlobalChainage ==
    ProfileReturned =>
        \A idx \in 0..(Len(pArgs.sections) - 1) :
            LET Holds(global, local, offset, end) ==
                    /\ Len(global) = Len(local)
                    /\ \A j \in 1..Len(global) :
                           /\ global[j].distance = Plus(offset, local[j].distance)
                           /\ Le(offset, global[j].distance)
                           /\ Le(global[j].distance, end)
            IN  Holds(PointsOfSection(profile, idx), PointsOfSection(allPoints, idx),
                      LengthOfFirst(idx), LengthOfFirst(idx + 1))

ReportedBed(idx, end) ==
    IF end = "upstream" THEN z_nodes(computedSections)[idx + 1]
    ELSE Minus(z_nodes(computedSections)[idx + 1],
               Times(computedSections[idx + 1].slope, computedSections[idx + 1].length))

\* C17: for every reach after the first swept, the required specific energy
\* is (the specific energy at the exit depth of the reach swept before it)
\* + (the bed elevation of that reach at the junction) - (the bed elevation
\* of the new reach at the junction), the bed elevations being those the
\* profile reports for the two reaches at the junction, whatever their input
\* mode; without a step of the bed the required energy is the exit energy.
C17_JunctionEnergy ==
    \A k \in 2..Len(reaches) :
        LET Holds(entry, bedPrev, bedCurr) ==
                entry.E_req =
                    RequiredEnergy(pArgs.type, pArgs.baseParams, pArgs.unit, entry.from,
                                   [z_prev_end |-> bedPrev, z_curr_start |-> bedCurr])
        IN  Holds(reaches[k],
                  ReportedBed(reaches[k - 1].originalIdx,
                              IF Downstream THEN "upstream" ELSE "downstream"),
                  ReportedBed(reaches[k].originalIdx,
                              IF Downstream THEN "downstream" ELSE "upstream"))

\* C18: whenever the required junction energy of a reach after the first
\* swept is below the specific energy at its critical depth, the reach is
\* entered at exactly its critical depth and solveDepthFromEnergy returns
\* that critical depth for the same target energy; the sweep goes on, so the
\* returned profile holds an entry for every reach and the choked reach has
\* its entry point, at the critical depth, among the returned points.
C18_ChokeIsNormalBranch ==
    /\ \A k \in 2..Len(reaches) :
           LET Holds(entry, p) ==
                   /\ entry.depth = solveCriticalDepth(pArgs.type, p, pArgs.unit)
                   /\ solveDepthFromEnergy(pArgs.type, p, entry.E_req, pArgs.unit,
                                           entry.regime) = entry.depth
           IN  Lt(reaches[k].E_req, reaches[k].Ec) =>
                   Holds(reaches[k], [pArgs.baseParams EXCEPT !.slope = reaches[k].s.slope])
    /\ ProfileReturned =>
           /\ Len(reaches) = Len(pArgs.sections)
           /\ \A k \in 2..Len(reaches) :
                  Lt(reaches[k].E_req, reaches[k].Ec) =>
                      \E j \in 1..Len(profile) :
                          /\ profile[j].sectionIndex = reaches[k].originalIdx
                          /\ profile[j].depth = reaches[k].yc

\* a profile is returned whose second reach, in Elevation mode like the
\* first, was choked by a rising step of the bed and integrated to its end
C18_Witness ==
    /\ ProfileReturned
    /\ Len(reaches) = MaxReaches
    /\ \A k \in 1..Len(reaches) : reaches[k].s.inputMode = "Elevation"
    /\ reaches[MaxReaches].choke
    /\ Lt(reaches[MaxReaches].E_req, reaches[MaxReaches].Ec)
    /\ Len(profile) = MaxReaches * (MaxSteps + 1)

\* line 329: the band of |1 - Fr2| the code names the singularity
SINGULARITY_BAND == 500

\* lines 319-327: 1 - Fr2 at depth y of the reach being integrated
FroudeDenominator(y) ==
    LET Of(geom) ==
            Minus(Num(1),
                  Divide(Math_pow2(Divide(pArgs.baseParams.flowRate, geom.A)),
                         Times(UNIT_CONSTANTS(pArgs.unit).G, Divide(geom.A, geom.T))))
    IN  Of(getGeometry(pArgs.type, y, sectionParams))

\* the depth the raw step (S - Sf) / (1 - Fr2) * dx gives from depth y of the
\* reach being integrated, before the bounds check
RawDepth(y) ==
    AdvanceDepth(sectionParams, pArgs.baseParams.flowRate, pArgs.unit,
                 getGeometry(pArgs.type, y, sectionParams), y,
                 StepLength(pArgs.bc, Current.s, pArgs.stepPerSection))

\* C19: in a sub-step that starts where |1 - Fr2| is below 0.05 the depth is
\* not advanced by the raw step: the reach either records no further point
\* or records a depth other than the one the raw step gives.
C19_SingularityPolicy ==
    pPc = "integrate" =>
        \A j \in 1..(Len(sectionPoints) - 1) :
            Lt(Math_abs(FroudeDenominator(sectionPoints[j].depth)), SINGULARITY_BAND) =>
                sectionPoints[j + 1].depth # ClampDepth(RawDepth(sectionPoints[j].depth))

\* C20: when the depth a sub-step computes is <= 0, and so is clamped to the
\* floor, no further sub-step of that reach is integrated: the point at the
\* floor is the last point of the reach.
C20_DryOutEndsReach ==
    pPc = "integrate" =>
        \A j \in 1..(Len(sectionPoints) - 1) :
            Le(RawDepth(sectionPoints[j].depth), 0) => Len(sectionPoints) = j + 1

\* C21: every depth recorded after an integration sub-step, that is the depth
\* of every point of a reach other than its starting point, lies in the
\* closed range [0.01, 100].
C21_DepthClamped ==
    \A j \in 2..Len(sectionPoints) :
        /\ Le(DEPTH_FLOOR, sectionPoints[j].depth)
        /\ Le(sectionPoints[j].depth, DEPTH_CEILING)

\* the integration loop breaks at depth y (lines 315-317)
BreaksAt(y) ==
    LET Of(geom) == Le(y, 0) \/ geom.A = 0 \/ geom.T = 0
    IN  Of(getGeometry(pArgs.type, y, pArgs.baseParams))

\* the reach just stored, whose points sectionPoints holds in the order of
\* their integration
ReachStored == pPc \in {"enter", "stitch"} /\ p_i >= 1

\* the reach just stored was integrated to its end
NotEndedEarly ==
    \A j \in 1..Len(sectionPoints) :
        j <= pArgs.stepPerSection => ~BreaksAt(sectionPoints[j].depth)

\* the count and the tags of C22: stepPerSection + 1 points for the reach just
\* stored, all with its original index, and reachCount * (stepPerSection + 1)
\* points in the returned profile, stepPerSection + 1 of each reach
C22_CountAndTags ==
    /\ ReachStored /\ NotEndedEarly =>
           /\ Len(sectionPoints) = pArgs.stepPerSection + 1
           /\ \A j \in 1..Len(sectionPoints) :
                  sectionPoints[j].sectionIndex =
                      processingOrderOf(pArgs.bc, computedSections)[p_i].originalIdx
    /\ ProfileReturned /\ (\A k \in 1..Len(profile) : ~BreaksAt(profile[k].depth)) =>
           /\ Len(profile) = Len(pArgs.sections) * (pArgs.stepPerSection + 1)
           /\ \A idx \in 0..(Len(pArgs.sections) - 1) :
                  Cardinality({k \in 1..Len(profile) : profile[k].sectionIndex = idx})
                      = pArgs.stepPerSection + 1

\* C22: a reach that is integrated to its end contributes exactly
\* stepPerSection + 1 points, all tagged with its original index, at the
\* local distances k * length / stepPerSection, k = 0..stepPerSection; with
\* no reach ended early the profile has reachCount * (stepPerSection + 1)
\* points, in either direction of the sweep.
C22_PointCountAndTagging ==
    /\ C22_CountAndTags
    /\ ReachStored /\ NotEndedEarly =>
           \A j \in 1..Len(sectionPoints) :
               LET AtMultiple(d, k, s) == d * pArgs.stepPerSection = k * s.length
               IN  AtMultiple(sectionPoints[j].distance,
                              IF isUpstreamCalc THEN pArgs.stepPerSection - (j - 1) ELSE j - 1,
                              processingOrderOf(pArgs.bc, computedSections)[p_i].s)

\* the reaches up to reach n (from 1) are in Slope mode and the next one is in
\* Elevation mode
LeadingSlopeReaches(n) ==
    /\ n < Len(pArgs.sections)
    /\ \A k \in 1..n : pArgs.sections[k].inputMode = "Slope"
    /\ pArgs.sections[n + 1].inputMode = "Elevation"

\* C23: when the leading reaches are in Slope mode and the reach after them
\* is in Elevation mode, the leading nodes are derived backwards, node[i] =
\* node[i+1] + slope_i * length_i, and the reported bed of the last leading
\* reach at its downstream end is the supplied upstream elevation of the
\* Elevation-mode reach.
C23_BackwardFill ==
    ProfileReturned =>
        \A n \in 1..Len(pArgs.sections) :
            LeadingSlopeReaches(n) =>
                /\ \A k \in 1..n :
                       z_nodes(computedSections)[k] =
                           Plus(z_nodes(computedSections)[k + 1],
                                Times(computedSections[k].slope, computedSections[k].length))
                /\ ReportedBed(n - 1, "downstream") = pArgs.sections[n + 1].usElevation

AllBySlope == \A k \in 1..Len(pArgs.sections) : pArgs.sections[k].inputMode = "Slope"

\* node 0 is at the datum and every later node is the node before it less
\* slope * length of the reach between them
NodesFromDatum ==
    /\ z_nodes(computedSections)[1] = DATUM
    /\ \A k \in 1..Len(computedSections) :
           z_nodes(computedSections)[k + 1] =
               Minus(z_nodes(computedSections)[k],
                     Times(computedSections[k].slope, computedSections[k].length))

\* the reported bed elevation of the last point of the reach of original index
\* idx equals that of the first point of the next reach
BedContinuousAfter(idx) ==
    LET Meets(pts, nextPts) ==
            pts # <<>> /\ nextPts # <<>> /\ pts[Len(pts)].bedElevation = nextPts[1].bedElevation
    IN  Meets(PointsOfSection(profile, idx), PointsOfSection(profile, idx + 1))

\* C24: when no reach is in Elevation mode, node 0 is at the datum
\* 100, node[i+1] = node[i] - slope_i * length_i, and at every junction the
\* bed elevation of the last point of reach i equals the bed elevation of the
\* first point of reach i+1.
C24_AllSlopeContinuity ==
    ProfileReturned /\ AllBySlope =>
        /\ NodesFromDatum
        /\ \A idx \in 0..(Len(pArgs.sections) - 2) : BedContinuousAfter(idx)

\* the places in the returned profile of the points of the reach of original
\* index idx
PlacesOf(idx) == {j \in 1..Len(profile) : profile[j].sectionIndex = idx}

\* C28: at every interior junction the last point of reach i and the first
\* point of reach i+1 have the same distance and the point of reach i comes
\* first in the returned profile; among points of equal distance the
\* sectionIndex never decreases.
C28_CoincidentOrder ==
    ProfileReturned =>
        /\ \A idx \in 0..(Len(pArgs.sections) - 2) :
               /\ PlacesOf(idx) # {} /\ PlacesOf(idx + 1) # {}
               /\ \E j \in PlacesOf(idx), k \in PlacesOf(idx + 1) :
                      /\ \A m \in PlacesOf(idx) : m <= j
                      /\ \A m \in PlacesOf(idx + 1) : k <= m
                      /\ profile[j].distance = profile[k].distance
                      /\ j < k
        /\ \A j, k \in 1..Len(profile) :
               j < k /\ profile[j].distance = profile[k].distance =>
                   profile[j].sectionIndex <= profile[k].sectionIndex

(***************************************************************************)
(* Claims about the calculators, checked under SpecCalc.                   *)
(***************************************************************************)
Returned == cfPc = "done"
Validated == ValidationError(cfArgs.type, cfArgs.p) = NoError

\* the condition under which the validation is said to fail
ValidationFails ==
    \/ cfArgs.p.slope <= 0
    \/ cfArgs.p.manningN <= 0
    \/ cfArgs.p.flowRate <= 0
    \/ (cfArgs.type = "Circular" /\ cfArgs.p.diameter <= 0)
    \/ (cfArgs.type = "Rectangular" /\ cfArgs.p.width <= 0)

\* C5: calculateFlow always returns; the returned result carries an error exactly
\* when slope <= 0 or manningN <= 0 or flowRate <= 0, or the shape is Circular with
\* diameter <= 0, or Rectangular with width <= 0, and then every numeric field is 0
\* and the regime is 'Critical'.
C5_ErrorIffValidationFails ==
    Returned =>
        /\ (result.error # NoError) <=> ValidationFails
        /\ result.error # NoError =>
              /\ result.normalDepth = 0
              /\ result.criticalDepth = 0
              /\ result.velocity = 0
              /\ result.froudeNumber = 0
              /\ result.criticalVelocity = 0
              /\ result.flowRegime = "Critical"

\* a call that failed on the diameter alone has returned its error result
C5_Witness ==
    /\ Returned
    /\ cfArgs.type = "Circular"
    /\ cfArgs.p.diameter <= 0
    /\ cfArgs.p.slope > 0 /\ cfArgs.p.manningN > 0 /\ cfArgs.p.flowRate > 0
    /\ result.error = "Diameter must be positive."

\* C6: a solver that ran to its iteration ceiling without meeting the tolerance is
\* not reported: the result of a validated call has no error, and the depth it
\* reports is the midpoint of the solver's final bracket.
C6_NonConvergenceSilent ==
    (Returned /\ Validated) =>
        /\ result.error = NoError
        /\ cfNormal.exit = "ceiling" =>
              /\ cfNormal.i = MAX_ITER
              /\ result.normalDepth = Divide(Plus(cfNormal.min, cfNormal.max), Num(2))
        /\ cfCritical.exit = "ceiling" =>
              /\ cfCritical.i = MAX_ITER
              /\ result.criticalDepth
                     = Divide(Plus(cfCritical.min, cfCritical.max), Num(2))

\* the Manning root lies above the bracket: the lower end climbed to the bracket's
\* upper end, which never moved
C6_Witness ==
    /\ Returned /\ Validated
    /\ cfNormal.exit = "ceiling"
    /\ cfNormal.max = BracketMax(cfArgs.type, cfArgs.p)
    /\ cfNormal.max - cfNormal.min <= 1
    /\ result.error = NoError

\* C7: for a validated call the regime is 'Subcritical' iff Fr < 0.99,
\* 'Supercritical' iff Fr > 1.01 and 'Critical' otherwise, Fr being the Froude
\* number V / sqrt(g A / T) at the normal depth.
C7_RegimeDeadband ==
    (Returned /\ Validated) =>
        /\ result.flowRegime = "Subcritical" <=> Lt(result.froudeNumber, 9900)
        /\ result.flowRegime = "Supercritical" <=> Gt(result.froudeNumber, 10100)
        /\ result.flowRegime \in {"Subcritical", "Supercritical", "Critical"}
        /\ \E g \in {getGeometry(cfArgs.type, result.normalDepth, cfArgs.p)} :
              result.froudeNumber
                  = Divide(Divide(cfArgs.p.flowRate, g.A),
                           Math_sqrt(Times(UNIT_CONSTANTS(cfArgs.unit).G,
                                           Divide(g.A, g.T))))

\* a Froude number inside the deadband and off 1 is classified 'Critical'
C7_Witness ==
    /\ Returned /\ Validated
    /\ result.froudeNumber > 9900 /\ result.froudeNumber < 10100
    /\ result.froudeNumber # Num(1)
    /\ result.flowRegime = "Critical"

\* C8: getGeometry at a depth y <= 0 returns A = 0, P = 0, T = 0 and
\* centroidDepth = 0, whatever the shape and its parameters.
C8_ZeroGeometry ==
    (geometry.called /\ geometry.y <= 0) =>
        /\ geometry.out.A = 0
        /\ geometry.out.P = 0
        /\ geometry.out.T = 0
        /\ geometry.out.centroidDepth = 0

\* getGeometry was called at depth 0 for a rectangular channel of positive width
C8_Witness ==
    /\ geometry.called
    /\ geometry.y = 0
    /\ cfArgs.type = "Rectangular" /\ cfArgs.p.width > 0
    /\ geometry.out = ZeroGeometry

\* C9: calculateSectionProperties divides by no zero area or perimeter: velocity is
\* Q/A when A > 0 and 0 otherwise, hydraulicRadius is A/P when P > 0 and 0 otherwise,
\* specificForce is Q^2/(g A) + A centroidDepth when A > 0 and 0 otherwise,
\* specificEnergy is y + V^2/(2g); so at a depth y <= 0 area, perimeter,
\* hydraulicRadius, topWidth, velocity and specificForce are 0 and specificEnergy is y.
C9_SectionProperties ==
    sectionProps.called =>
        \E g \in {getGeometry(cfArgs.type, sectionProps.y, cfArgs.p)} :
        \E o \in {sectionProps.out} :
            /\ o.velocity = IF g.A > 0 /\ g.A # NaN THEN Divide(cfArgs.p.flowRate, g.A) ELSE 0
            /\ o.hydraulicRadius = IF g.P > 0 /\ g.P # NaN THEN Divide(g.A, g.P) ELSE 0
            /\ o.specificForce =
                   IF g.A > 0 /\ g.A # NaN
                   THEN Plus(Divide(Times(cfArgs.p.flowRate, cfArgs.p.flowRate),
                                    Times(UNIT_CONSTANTS(cfArgs.unit).G, g.A)),
                             Times(g.A, g.centroidDepth))
                   ELSE 0
            /\ o.specificEnergy =
                   Plus(sectionProps.y,
                        Divide(Times(o.velocity, o.velocity),
                               Times(Num(2), UNIT_CONSTANTS(cfArgs.unit).G)))
            /\ IsFinite(o.velocity) /\ IsFinite(o.hydraulicRadius)
            /\ sectionProps.y <= 0 =>
                  /\ o.area = 0 /\ o.perimeter = 0 /\ o.hydraulicRadius = 0
                  /\ o.topWidth = 0 /\ o.velocity = 0 /\ o.specificForce = 0
                  /\ o.specificEnergy = sectionProps.y

\* the section properties were asked for at a negative depth
C9_Witness ==
    /\ sectionProps.called
    /\ sectionProps.y < 0
    /\ cfArgs.p.flowRate > 0
    /\ sectionProps.out.velocity = 0
    /\ sectionProps.out.specificEnergy = sectionProps.y

\* C10: calculateSectionProperties at the normalDepth that calculateFlow returned
\* yields the velocity of that calculateFlow result.
C10_VelocityConsistent ==
    (Returned /\ sectionProps.called /\ sectionProps.y = result.normalDepth) =>
        sectionProps.out.velocity = result.velocity

\* C16: for a fixed shape, shape parameters, discharge, slope and unit
\* system and two roughness values n1 < n2, solveNormalDepth returns a
\* strictly smaller depth for n1 than for n2.
C16_MonotoneInRoughness ==
    call.called /\ cfArgs.p.manningN < call.manningN => Lt(cfNormal.depth, call.out)

\* a solver ended, after at most limit midpoints, with the midpoint `it` shows
\* to meet the tolerance or, after limit iterations, with the midpoint of the
\* bracket they left
EndedWithin(ex, limit, it) ==
    \/ ex.exit = "tolerance" /\ ex.i < limit /\ it.returned /\ ex.depth = it.mid
    \/ ex.exit = "ceiling" /\ ex.i = limit /\ ex.depth = Midpoint(ex.min, ex.max)

C26_StaysOnBranch ==
    energy.called /\ energy.out # NoResult /\ Ge(energy.E, energy.Ec) /\ Gt(energy.yc, 0) =>
        IF energy.regime = "Supercritical"
        THEN Gt(energy.out.depth, 0) /\ Le(energy.out.depth, energy.yc)
        ELSE /\ Ge(energy.out.depth, energy.yc)
             /\ Le(energy.out.depth,
                    Math_max(Times(energy.yc, Num(5)), Times(energy.E, 15000)))

\* the bracket of the running depth solver and the depths the solvers returned
\* lie in [0, U], U = diameter for a circular channel and 50 otherwise
BracketWithin ==
    LET U == IF cfArgs.type = "Circular" THEN cfArgs.p.diameter ELSE Num(50)
        Within(y) == Le(0, y) /\ Le(y, U)
    IN  /\ cfPc \in {"normal", "critical"} =>
               Within(cfLoop.min) /\ Within(cfLoop.max) /\ Le(cfLoop.min, cfLoop.max)
        /\ cfNormal # NoResult => Within(cfNormal.depth)
        /\ cfCritical # NoResult => Within(cfCritical.depth)
        /\ Returned /\ Validated =>
               Within(result.normalDepth) /\ Within(result.criticalDepth)

\* a step of a depth solver that does not return
NonReturningIteration ==
    cfPc \in {"normal", "critical"} /\ cfPc' = cfPc /\ cfLoop'.i = cfLoop.i + 1

\* C27 as stated: throughout solveNormalDepth and solveCriticalDepth
\* 0 <= min <= max <= U, the returned depth lies in [0, U], and each
\* non-returning iteration halves max - min.
C27_Stated ==
    /\ []BracketWithin
    /\ [][NonReturningIteration =>
              2 * (cfLoop'.max - cfLoop'.min) = cfLoop.max - cfLoop.min]_vars

\* C27 amended: the same, a non-returning iteration putting one end of the
\* bracket at its midpoint, so that max - min is halved up to the rounding of
\* the midpoint and never grows.
C27_BracketInvariant ==
    /\ []BracketWithin
    /\ [][NonReturningIteration =>
              /\ cfLoop.min <= cfLoop'.min /\ cfLoop'.max <= cfLoop.max
              /\ 2 * (cfLoop'.max - cfLoop'.min) \in
                     {cfLoop.max - cfLoop.min + d : d \in {-1, 0, 1}}]_vars

\* the normal depth of a pipe too small for its discharge: 100 iterations
\* took the bracket to its upper end, the diameter
C27_Witness ==
    /\ Returned /\ Validated
    /\ cfArgs.type = "Circular"
    /\ cfNormal.exit = "ceiling"
    /\ cfNormal.max = cfArgs.p.diameter
    /\ cfNormal.max - cfNormal.min <= 1

(***************************************************************************)
(* The calculator view of App (App.tsx): its state, its handlers and its   *)
(* two effects.                                                            *)
(*                                                                         *)
(* toggleUnit multiplies and divides by the conversion factors, and the    *)
(* handlers store what the user typed.  A quantity of the form is kept     *)
(* here as a typed number and the power of its factor that the toggles     *)
(* have applied to it, so that the product is held without rounding; the   *)
(* calculators receive the product as a number (ValueOf).                  *)
(***************************************************************************)
\* 35.3147 cubic feet per cubic metre
FLOW_FACTOR == 353147
\* 3.28084 feet per metre, in hundred-thousandths
LENGTH_FACTOR == 328084

\* a number as typed, no factor applied
Typed(v) == [base |-> v, power |-> 0]

\* x * factor for d = 1, x / factor for d = -1: zero and NaN stay what they are
ByFactor(x, d) ==
    IF x.base = 0 \/ IsNaN(x.base) THEN x ELSE [x EXCEPT !.power = @ + d]

TimesFactor(v, kind) ==
    IF kind = "flow" THEN Times(v, FLOW_FACTOR)
    ELSE Divide(Times(v, LENGTH_FACTOR), Num(10))

OverFactor(v, kind) ==
    IF kind = "flow" THEN Divide(v, FLOW_FACTOR)
    ELSE Divide(Times(v, Num(10)), LENGTH_FACTOR)

\* the number a quantity stands for
RECURSIVE ValueOf(_, _)
ValueOf(x, kind) ==
    IF x.power = 0 THEN x.base
    ELSE IF x.power > 0
    THEN TimesFactor(ValueOf([x EXCEPT !.power = @ - 1], kind), kind)
    ELSE OverFactor(ValueOf([x EXCEPT !.power = @ + 1], kind), kind)

\* the fields toggleUnit converts, and the factor of each
FieldKind(field) ==
    IF field = "flowRate" THEN "flow"
    ELSE IF field \in {"width", "diameter"} THEN "length"
    ELSE "plain"

\* the parameters of the form, from an InputParams of numbers
FormParams(p) ==
    [f \in ParamFields |-> IF FieldKind(f) = "plain" THEN p[f] ELSE Typed(p[f])]

\* the InputParams the calculators receive
NumbersOf(form) ==
    [f \in ParamFields |->
        IF FieldKind(f) = "plain" THEN form[f] ELSE ValueOf(form[f], FieldKind(f))]

AnalysisModes == {"Normal", "Critical", "Custom"}

\* what the user types into a field
TypedTexts == {"", "2.5"}

\* parseFloat of the texts above
parseFloat(text) == IF text = "2.5" THEN 25000 ELSE NaN

\* the fields the user edits
EditedFields == {"flowRate"}

\* lines 36-48: the state of App when it mounts; both effects are to run
InitApp ==
    /\ app = [unit |-> "SI", activeTab |-> "Trapezoidal",
              params |-> FormParams(DEFAULT_PARAMS("Trapezoidal")),
              result |-> NoResult, analysisMode |-> "Normal",
              customDepth |-> Typed(Num(1)), sectionProps |-> NoCall]
    /\ changed = {"flow", "section"}
    /\ toggles = <<>>
    /\ cfArgs = [type |-> "Trapezoidal", p |-> DEFAULT_PARAMS("Trapezoidal"), unit |-> "SI"]
    /\ cfPc = "idle"
    /\ cfLoop = IdleLoop
    /\ cfNormal = NoResult
    /\ cfCritical = NoResult
    /\ result = NoResult
    /\ sectionProps = NoCall
    /\ geometry = NoCall
    /\ call = NoCall
    /\ energy = NoCall
    /\ ProfileIdle

\* React runs the effects of a render before it takes up the next update, so
\* a handler's update meets a state whose result effect has run
EffectsFlushed == "flow" \notin changed

\* what the form holds: the state of App without what its effects store
FormOf(state) ==
    [unit |-> state.unit, activeTab |-> state.activeTab, params |-> state.params,
     analysisMode |-> state.analysisMode, customDepth |-> state.customDepth]

LastTwo(seq) == IF Len(seq) > 2 THEN Tail(seq) ELSE seq

\* a mutant of the conversion: the factor is applied the same way in both
\* directions
ConvertTo_Multiply(newUnit, x) == ByFactor(x, 1)

\* lines 56-66: a converted field of newParams, and the converted custom depth
ConvertTo(newUnit, x) == IF newUnit = "Imperial" THEN ByFactor(x, 1) ELSE ByFactor(x, -1)

\* lines 51-75
toggleUnit ==
    /\ EffectsFlushed
    /\ \E newUnit \in {IF app.unit = "SI" THEN "Imperial" ELSE "SI"} :
          \E newParams \in {[f \in ParamFields |->
                               IF FieldKind(f) = "plain" THEN app.params[f]
                               ELSE ConvertTo(newUnit, app.params[f])]} :
             app' = [app EXCEPT !.unit = newUnit, !.params = newParams,
                                !.customDepth = ConvertTo(newUnit, @)]
    /\ changed' = {"flow", "section"}
    /\ toggles' = LastTwo(Append(toggles, FormOf(app)))
    /\ UNCHANGED <<calcVars, profileVars>>

\* lines 77-91
handleTabChange ==
    /\ EffectsFlushed
    /\ \E type \in ChannelTypes :
          \E def \in {DEFAULT_PARAMS(type)} :
             app' = [app EXCEPT
                       !.activeTab = type,
                       !.params = IF app.unit = "Imperial"
                                  THEN [f \in ParamFields |->
                                          IF FieldKind(f) = "plain" THEN def[f]
                                          ELSE ByFactor(Typed(def[f]), 1)]
                                  ELSE FormParams(def),
                       !.analysisMode = "Normal"]
    /\ changed' = {"flow", "section"}
    /\ toggles' = <<>>
    /\ UNCHANGED <<calcVars, profileVars>>

\* lines 93-99
handleChange ==
    /\ EffectsFlushed
    /\ \E field \in EditedFields, value \in TypedTexts :
          \E numVal \in {parseFloat(value)} :
             \E stored \in {IF IsNaN(numVal) THEN 0 ELSE numVal} :
                app' = [app EXCEPT !.params[field] =
                           IF FieldKind(field) = "plain" THEN stored ELSE Typed(stored)]
    /\ changed' = {"flow", "section"}
    /\ toggles' = <<>>
    /\ UNCHANGED <<calcVars, profileVars>>

\* lines 239, 246, 253: the buttons of the analysis mode
setAnalysisMode ==
    /\ EffectsFlushed
    /\ \E mode \in AnalysisModes :
          /\ app' = [app EXCEPT !.analysisMode = mode]
          /\ changed' = IF mode = app.analysisMode THEN changed
                        ELSE changed \cup {"section"}
    /\ toggles' = <<>>
    /\ UNCHANGED <<calcVars, profileVars>>

\* lines 260-267: the field of the custom depth, shown in the 'Custom' mode:
\* parseFloat(e.target.value) || 0
setCustomDepth ==
    /\ EffectsFlushed
    /\ app.analysisMode = "Custom"
    /\ \E value \in TypedTexts :
          \E numVal \in {parseFloat(value)} :
             \E depth \in {IF IsNaN(numVal) \/ numVal = 0 THEN Typed(0) ELSE Typed(numVal)} :
                /\ app' = [app EXCEPT !.customDepth = depth]
                /\ changed' = IF depth = app.customDepth THEN changed
                              ELSE changed \cup {"section"}
    /\ toggles' = <<>>
    /\ UNCHANGED <<calcVars, profileVars>>

\* lines 110-114: the depth of the section properties
AnalysisDepth(state) ==
    LET depth == IF state.analysisMode = "Normal" THEN state.result.normalDepth
                 ELSE IF state.analysisMode = "Critical" THEN state.result.criticalDepth
                 ELSE ValueOf(state.customDepth, "length")
    IN  IF IsNaN(depth) THEN 0 ELSE depth

\* lines 107-120: what the second effect stores
SectionEffect(state) ==
    [called |-> TRUE, y |-> AnalysisDepth(state),
     out |-> calculateSectionProperties(state.activeTab, AnalysisDepth(state),
                                        NumbersOf(state.params), state.unit)]

\* the forms the handlers below lead to: the defaults and the typed flow
\* rates, in either unit system
FormsOf(type, u) ==
    {[FormParams(DEFAULT_PARAMS(type)) EXCEPT
         !.flowRate = ByFactor(Typed(q), d),
         !.width = IF u = "SI" THEN @ ELSE ByFactor(@, 1),
         !.diameter = IF u = "SI" THEN @ ELSE ByFactor(@, 1)] :
       q \in {DEFAULT_PARAMS(type).flowRate, 0, parseFloat("2.5")}, d \in {-1, 0, 1}}

FlowCases ==
    UNION {{<<type, NumbersOf(form), u>> : form \in FormsOf(type, u)} :
              type \in ChannelTypes, u \in UnitSystems}

\* calculateFlow of the cases above, solved once
FlowResults == [c \in FlowCases |-> calculateFlow(c[1], c[2], c[3])]

\* lines 102-105: what the first effect stores
FlowEffect(state) ==
    LET Of(c) == IF c \in FlowCases THEN FlowResults[c]
                 ELSE calculateFlow(c[1], c[2], c[3])
    IN  Of(<<state.activeTab, NumbersOf(state.params), state.unit>>)

\* a mutant of the dependencies of the second effect: the result is not
\* among them
AfterEffects_NoResult(ran) == {}

\* line 120: the effects to run after those of ran: a new result is a change
\* of the second effect's dependencies
AfterEffects(ran) == IF "flow" \in ran THEN {"section"} ELSE {}

\* lines 102-120: the effects of one render, in the order of their
\* declaration, each reading the state its render holds.  The first stores
\* a new result, which is a change of the second's dependencies.
RunEffects ==
    /\ changed # {}
    /\ app' = [app EXCEPT
                 !.result = IF "flow" \in changed THEN FlowEffect(app) ELSE @,
                 !.sectionProps = IF "section" \in changed /\ app.result # NoResult
                                  THEN SectionEffect(app) ELSE @]
    /\ changed' = AfterEffects(changed)
    /\ UNCHANGED <<toggles, calcVars, profileVars>>

NextApp ==
    \/ toggleUnit
    \/ handleTabChange
    \/ handleChange
    \/ setAnalysisMode
    \/ setCustomDepth
    \/ RunEffects

SpecApp == InitApp /\ [][NextApp]_vars

(***************************************************************************)
(* Claims about App, checked under SpecApp.                                *)
(***************************************************************************)
\* the other unit system
Flipped(u) == IF u = "SI" THEN "Imperial" ELSE "SI"

\* x times its factor after a toggle from SI, x over its factor after a
\* toggle from Imperial
ToggledFrom(u, x) == IF u = "SI" THEN ByFactor(x, 1) ELSE ByFactor(x, -1)

\* the form is what one toggle makes of before
OneToggleFrom(before) ==
    /\ app.unit = Flipped(before.unit)
    /\ app.params.flowRate = ToggledFrom(before.unit, before.params.flowRate)
    /\ app.params.width = ToggledFrom(before.unit, before.params.width)
    /\ app.params.diameter = ToggledFrom(before.unit, before.params.diameter)
    /\ app.customDepth = ToggledFrom(before.unit, before.customDepth)
    /\ app.params.slope = before.params.slope
    /\ app.params.manningN = before.params.manningN
    /\ app.params.sideSlope = before.params.sideSlope
    /\ app.activeTab = before.activeTab
    /\ app.analysisMode = before.analysisMode

\* the unit, the parameters and the custom depth are those of before
RestoredTo(before) ==
    /\ app.unit = before.unit
    /\ app.params = before.params
    /\ app.customDepth = before.customDepth

\* C30: toggleUnit flips unit between 'SI' and 'Imperial', multiplies (SI to
\* Imperial) or divides (Imperial to SI) flowRate by 35.3147 and width,
\* diameter and customDepth by 3.28084, and leaves slope, manningN,
\* sideSlope, activeTab and analysisMode unchanged; two consecutive toggles
\* restore the original unit and, the products held without rounding, the
\* original parameters and custom depth.
C30_ToggleUnit ==
    /\ Len(toggles) >= 1 => OneToggleFrom(toggles[Len(toggles)])
    /\ Len(toggles) = 2 => RestoredTo(toggles[1])

\* two toggles in a row, from Imperial with a typed flow rate and a typed
\* custom depth: both were divided, then multiplied
C30_Witness ==
    /\ Len(toggles) = 2
    /\ toggles[1].unit = "Imperial"
    /\ toggles[2].params.flowRate = [base |-> parseFloat("2.5"), power |-> -1]
    /\ toggles[2].customDepth = [base |-> parseFloat("2.5"), power |-> -1]
    /\ toggles[2].params.width.base # 0
    /\ app.unit = "Imperial"
    /\ app.customDepth = Typed(parseFloat("2.5"))

\* the depth the section properties belong to, by the analysis mode
DepthOfMode ==
    IF app.analysisMode = "Normal" THEN app.result.normalDepth
    ELSE IF app.analysisMode = "Critical" THEN app.result.criticalDepth
    ELSE ValueOf(app.customDepth, "length")

\* C29: once the effects have run, the displayed result is calculateFlow of
\* the current activeTab, params and unit, and the section properties are
\* calculateSectionProperties of the same activeTab, params and unit at
\* result.normalDepth in 'Normal' mode, result.criticalDepth in 'Critical'
\* mode and customDepth in 'Custom' mode, a NaN depth being replaced by 0.
C29_DisplayConsistent ==
    changed = {} =>
        /\ app.result = FlowEffect(app)
        /\ app.sectionProps.called
        /\ app.sectionProps.y = (IF IsNaN(DepthOfMode) THEN 0 ELSE DepthOfMode)
        /\ app.sectionProps.out =
              calculateSectionProperties(app.activeTab, app.sectionProps.y,
                                         NumbersOf(app.params), app.unit)

\* the effects have run after a tab change, a toggle to Imperial, an edit of
\* the flow rate and of the custom depth and the choice of the 'Custom' mode
C29_Witness ==
    /\ changed = {}
    /\ app.activeTab = "Circular"
    /\ app.unit = "Imperial"
    /\ app.analysisMode = "Custom"
    /\ app.params.flowRate = Typed(parseFloat("2.5"))
    /\ app.customDepth = Typed(parseFloat("2.5"))
    /\ app.params.diameter.power = 1
    /\ app.result.error = NoError

====
